---- MODULE Spec2Model ----
(***************************************************************************)
(* Model of the Exliar VFIO automation framework (kunihir0/ebw):           *)
(*   - the change log (core/state.rs: StateTracker), with the cleanup      *)
(*     script it renders and what bash does when the script is executed,   *)
(*   - the backup helper (utils/mod.rs: create_timestamped_backup),        *)
(*   - the bootloader backends (core/bootloader/grub.rs, kernelstub.rs,    *)
(*     systemd_boot.rs) behind the BootloaderManager trait,                *)
(*   - the VFIO manager (core/vfio.rs: configure_modprobe, bind_device,    *)
(*     unbind_device),                                                     *)
(*   - the configuration workflow (ui/tui/input.rs: handle_key_event 'c'). *)
(* The program is single-threaded: every operation is one atomic action.   *)
(***************************************************************************)
EXTENDS Integers, Sequences, FiniteSets, TLC

VARIABLES
    fs,        \* the file system: path (string) -> file content
    clock,     \* wall clock, in whole seconds (chrono::Local::now())
    changes,   \* StateTracker.changes, the in-memory change log
    doc,       \* the persisted state document at StateTracker.state_file_path
    run,       \* history: the base files as they were when the log was last
               \* empty, and whether every entry since came from ModifyRecorded
    faults,    \* number of failed writes of the state document so far
    app,       \* AppState: which bootloader manager initialize_managers made
    host,      \* the host outside the files: the device's driver binding in
               \* sysfs and the kernel options kernelstub manages
    last       \* history: the last operation, its inputs, what it returned

vars == <<fs, clock, changes, doc, run, faults, app, host, last>>

(***************************************************************************)
(* Bounds of the model.                                                    *)
(***************************************************************************)
MaxClock == 1      \* the clock runs over 0..MaxClock
MaxLog == 2        \* record_change is explored up to this log length
MaxFaults == 1     \* failed writes of the state document per behaviour

(***************************************************************************)
(* Paths.                                                                  *)
(***************************************************************************)
GrubPath == "/etc/default/grub"
VfioConfPath == "/etc/modprobe.d/vfio.conf"
ModulesLoadPath == "/etc/modules-load.d/vfio-pci-load.conf"

BasePaths == {GrubPath, VfioConfPath, ModulesLoadPath}

\* chrono::Local::now().format("%Y%m%d_%H%M%S"): one stamp per clock second.
Stamp(t) == "20250101_0000" \o (IF t < 10 THEN "0" ELSE "") \o ToString(t)

\* file_path.with_file_name(format!("{}.backup_{}", file_name, timestamp))
BackupName(p, t) == p \o ".backup_" \o Stamp(t)

Paths == BasePaths \cup {BackupName(p, t) : p \in BasePaths, t \in 0..MaxClock}

(***************************************************************************)
(* File contents: a file is absent, or a sequence of lines with or without *)
(* a final newline.  A line is a record so that the assignment line of     *)
(* the GRUB file keeps its structure.                                      *)
(***************************************************************************)
\* Bind(x, F): F applied to the value of x, with x evaluated once.
Bind(x, F(_)) == CHOOSE r \in {F(v) : v \in {x}} : TRUE

NoFile == [ex |-> FALSE, lines |-> <<>>, nl |-> TRUE]
File(ls) == [ex |-> TRUE, lines |-> ls, nl |-> TRUE]
FileNoNl(ls) == [ex |-> TRUE, lines |-> ls, nl |-> FALSE]

TextLine(s) == [k |-> "text", s |-> s, open |-> "", ps |-> <<>>, close |-> "", tail |-> ""]

Exists(f, p) == f[p].ex

\* fs::copy(from, to): `to` is created or overwritten with the bytes of `from`.
CopyFile(f, from, to) == [f EXCEPT ![to] = f[from]]

\* fs::rename(from, to): `to` is replaced, `from` disappears; renaming a
\* file onto itself does nothing.
RenameFile(f, from, to) ==
    IF from = to THEN f ELSE [f EXCEPT ![to] = f[from], ![from] = NoFile]

\* fs::remove_file(p)
RemoveFile(f, p) == [f EXCEPT ![p] = NoFile]

\* fs::File::create(p) + write_all(content)
WriteFile(f, p, c) == [f EXCEPT ![p] = c]

(***************************************************************************)
(* create_timestamped_backup(file_path): an absent file gives back the     *)
(* original path and copies nothing; otherwise the file is copied to       *)
(* <name>.backup_<stamp> and that path is returned.  copyOk = FALSE is an  *)
(* I/O error of fs::copy.                                                  *)
(***************************************************************************)
create_timestamped_backup(f, p, now, copyOk) ==
    IF ~Exists(f, p) THEN [ok |-> TRUE, path |-> p, fs |-> f]
    ELSE IF ~copyOk THEN [ok |-> FALSE, path |-> p, fs |-> f]
    ELSE [ok |-> TRUE, path |-> BackupName(p, now),
          fs |-> CopyFile(f, p, BackupName(p, now))]

(***************************************************************************)
(* The host outside the files.  driver is the driver the device is bound   *)
(* to ("" when unbound), override the content of its driver_override file, *)
(* vfioLoaded whether /sys/bus/pci/drivers/vfio-pci exists, hasOverride    *)
(* and hasProbe whether driver_override and /sys/bus/pci/drivers_probe     *)
(* exist, kopts the kernel options in kernelstub's configuration.          *)
(***************************************************************************)
NativeDriver == "nvidia"

DefaultHost ==
    [driver |-> NativeDriver, override |-> "", vfioLoaded |-> TRUE,
     hasOverride |-> TRUE, hasProbe |-> TRUE, kopts |-> {"quiet"}]

\* The one PCI device of the model, by its address.
Bdf == "0000:01:00.0"

\* The sysfs control files of the device and of the vfio-pci driver.
DriverUnbindFile == "<device>/driver/unbind"
DriverOverrideFile == "<device>/driver_override"
VfioBindFile == "/sys/bus/pci/drivers/vfio-pci/bind"
VfioUnbindFile == "/sys/bus/pci/drivers/vfio-pci/unbind"
ProbeFile == "/sys/bus/pci/drivers_probe"

SysfsExists(h, file) ==
    CASE file = DriverUnbindFile -> h.driver # ""
      [] file = DriverOverrideFile -> h.hasOverride
      [] file \in {VfioBindFile, VfioUnbindFile} -> h.vfioLoaded
      [] file = ProbeFile -> h.hasProbe

SysfsAccepts(h, file) ==
    CASE file = VfioBindFile -> h.driver = ""            \* else ENODEV
      [] file = VfioUnbindFile -> h.driver = "vfio-pci"  \* else ENODEV
      [] OTHER -> TRUE

SysfsWrite(h, file, data) ==
    CASE file = DriverUnbindFile -> [h EXCEPT !.driver = ""]
      [] file = DriverOverrideFile -> [h EXCEPT !.override = data]
      [] file = VfioBindFile -> [h EXCEPT !.driver = "vfio-pci"]
      [] file = VfioUnbindFile -> [h EXCEPT !.driver = ""]
      [] file = ProbeFile ->
           IF h.driver # "" THEN h
           ELSE IF h.override = "" THEN [h EXCEPT !.driver = NativeDriver]
           ELSE IF h.override = "vfio-pci" /\ h.vfioLoaded THEN [h EXCEPT !.driver = "vfio-pci"]
           ELSE h

\* One step "if path.exists() { open for writing; write!(file, data)? }"
\* of a run st = [ok, kind, host, writes]; `fail` is an I/O error of the
\* open or the write; a missing file is skipped or is NotFound.
SysfsStep(st, file, data, fail, required) ==
    IF ~st.ok THEN st
    ELSE IF ~SysfsExists(st.host, file)
    THEN IF required THEN [st EXCEPT !.ok = FALSE, !.kind = "NotFound"] ELSE st
    ELSE IF fail \/ ~SysfsAccepts(st.host, file)
    THEN [st EXCEPT !.ok = FALSE, !.kind = "io"]
    ELSE [st EXCEPT !.host = SysfsWrite(st.host, file, data),
                    !.writes = Append(st.writes, [file |-> file, data |-> data])]

(***************************************************************************)
(* The Change enum (core/state.rs).  Option<T> is None or Some(v).         *)
(***************************************************************************)
None == [some |-> FALSE]
Some(x) == [some |-> TRUE, v |-> x]

FileModified(path, backup_path) ==
    [variant |-> "FileModified", path |-> path, backup_path |-> backup_path]
KernelParamAdded(parameter, bootloader) ==
    [variant |-> "KernelParamAdded", parameter |-> parameter, bootloader |-> bootloader]
KernelParamRemoved(parameter, bootloader, original_value) ==
    [variant |-> "KernelParamRemoved", parameter |-> parameter,
     bootloader |-> bootloader, original_value |-> original_value]
ModuleLoaded(name, config_path, backup_path) ==
    [variant |-> "ModuleLoaded", name |-> name, config_path |-> config_path,
     backup_path |-> backup_path]
DriverBound(device_bdf, new_driver, original_driver) ==
    [variant |-> "DriverBound", device_bdf |-> device_bdf, new_driver |-> new_driver,
     original_driver |-> original_driver]
DriverUnbound(device_bdf, original_driver) ==
    [variant |-> "DriverUnbound", device_bdf |-> device_bdf,
     original_driver |-> original_driver]

Reverse(s) == [i \in 1..Len(s) |-> s[Len(s) + 1 - i]]

(***************************************************************************)
(* The persisted document: serde_json of StateTracker, {"changes": [...]}, *)
(* each Change externally tagged, a PathBuf or String a JSON string, an    *)
(* Option a JSON null or the inner string.                                 *)
(***************************************************************************)
JNull == [t |-> "null"]
JStr(s) == [t |-> "str", s |-> s]

OptToJson(o) == IF o.some THEN JStr(o.v) ELSE JNull

OptFromJsonDropped(j) == None

OptFromJson(j) == IF j.t = "null" THEN None ELSE Some(j.s)

ChangeToJson(c) ==
    CASE c.variant = "FileModified" ->
           [tag |-> c.variant,
            obj |-> [path |-> JStr(c.path), backup_path |-> JStr(c.backup_path)]]
      [] c.variant = "KernelParamAdded" ->
           [tag |-> c.variant,
            obj |-> [parameter |-> JStr(c.parameter), bootloader |-> JStr(c.bootloader)]]
      [] c.variant = "KernelParamRemoved" ->
           [tag |-> c.variant,
            obj |-> [parameter |-> JStr(c.parameter), bootloader |-> JStr(c.bootloader),
                     original_value |-> OptToJson(c.original_value)]]
      [] c.variant = "ModuleLoaded" ->
           [tag |-> c.variant,
            obj |-> [name |-> JStr(c.name), config_path |-> JStr(c.config_path),
                     backup_path |-> OptToJson(c.backup_path)]]
      [] c.variant = "DriverBound" ->
           [tag |-> c.variant,
            obj |-> [device_bdf |-> JStr(c.device_bdf), new_driver |-> JStr(c.new_driver),
                     original_driver |-> OptToJson(c.original_driver)]]
      [] c.variant = "DriverUnbound" ->
           [tag |-> c.variant,
            obj |-> [device_bdf |-> JStr(c.device_bdf),
                     original_driver |-> OptToJson(c.original_driver)]]

KnownVariants ==
    {"FileModified", "KernelParamAdded", "KernelParamRemoved", "ModuleLoaded",
     "DriverBound", "DriverUnbound"}

ChangeFromJson(j) ==
    CASE j.tag = "FileModified" -> FileModified(j.obj.path.s, j.obj.backup_path.s)
      [] j.tag = "KernelParamAdded" -> KernelParamAdded(j.obj.parameter.s, j.obj.bootloader.s)
      [] j.tag = "KernelParamRemoved" ->
           KernelParamRemoved(j.obj.parameter.s, j.obj.bootloader.s,
                              OptFromJson(j.obj.original_value))
      [] j.tag = "ModuleLoaded" ->
           ModuleLoaded(j.obj.name.s, j.obj.config_path.s, OptFromJson(j.obj.backup_path))
      [] j.tag = "DriverBound" ->
           DriverBound(j.obj.device_bdf.s, j.obj.new_driver.s,
                       OptFromJson(j.obj.original_driver))
      [] j.tag = "DriverUnbound" ->
           DriverUnbound(j.obj.device_bdf.s, OptFromJson(j.obj.original_driver))

\* The state file: absent, or holding text that is a valid document with a
\* body (the JSON array of changes) or is not parsable.
NoDoc == [ex |-> FALSE, valid |-> FALSE, body |-> <<>>]
BrokenDoc == [ex |-> TRUE, valid |-> FALSE, body |-> <<>>]
DocOf(chs) == [ex |-> TRUE, valid |-> TRUE, body |-> [i \in 1..Len(chs) |-> ChangeToJson(chs[i])]]

\* fs::write = create (truncate) then write_all: it succeeds, fails before
\* the file is touched, or fails after the truncation.
SaveOutcomes == {"ok", "create_failed", "write_failed"}

\* The outcomes explored once `n` writes of the document have failed.
SaveOutcomesAt(n) == IF n < MaxFaults THEN SaveOutcomes ELSE {"ok"}
FaultsAfter(n, outcome) == IF outcome = "ok" THEN n ELSE n + 1

save_stateNotWritten(chs, d, outcome) == [ok |-> TRUE, doc |-> d]

\* StateTracker::save_state
save_state(chs, d, outcome) ==
    CASE outcome = "ok" -> [ok |-> TRUE, doc |-> DocOf(chs)]
      [] outcome = "create_failed" -> [ok |-> FALSE, doc |-> d]
      [] outcome = "write_failed" -> [ok |-> FALSE, doc |-> BrokenDoc]

load_stateSkipsUnknown(d) ==
    IF ~d.ex THEN [ok |-> FALSE, kind |-> "NotFound", changes |-> <<>>]
    ELSE IF ~d.valid THEN [ok |-> FALSE, kind |-> "InvalidData", changes |-> <<>>]
    ELSE [ok |-> TRUE, kind |-> "",
          changes |-> LET known == SelectSeq(d.body, LAMBDA j : j.tag \in KnownVariants)
                      IN [i \in 1..Len(known) |-> ChangeFromJson(known[i])]]

\* StateTracker::load_state
load_state(d) ==
    IF ~d.ex THEN [ok |-> FALSE, kind |-> "NotFound", changes |-> <<>>]
    ELSE IF ~d.valid \/ \E i \in 1..Len(d.body) : d.body[i].tag \notin KnownVariants
         THEN [ok |-> FALSE, kind |-> "InvalidData", changes |-> <<>>]
    ELSE [ok |-> TRUE, kind |-> "",
          changes |-> [i \in 1..Len(d.body) |-> ChangeFromJson(d.body[i])]]

\* StateTracker::new: the loaded log, or a fresh one when there is no
\* document or it does not load.
new_tracker(d) ==
    IF d.ex THEN (IF load_state(d).ok THEN load_state(d).changes ELSE <<>>)
    ELSE <<>>

(***************************************************************************)
(* StateTracker::undo_change.  ioFail is the failure of the one file       *)
(* system call the undo makes, if it makes one.                            *)
(***************************************************************************)
undo_changeSwapped(f, c, ioFail) ==
    IF c.variant = "FileModified" /\ Exists(f, c.backup_path) /\ ~ioFail
    THEN [ok |-> TRUE, fs |-> RenameFile(f, c.path, c.backup_path),
          writes |-> <<>>, manual |-> FALSE]
    ELSE [ok |-> TRUE, fs |-> f, writes |-> <<>>, manual |-> FALSE]

undo_changeKeepsCreatedFile(f, c, ioFail) ==
    IF c.variant = "ModuleLoaded" /\ c.backup_path.some /\ Exists(f, c.backup_path.v)
    THEN IF ioFail THEN [ok |-> FALSE, fs |-> f, writes |-> <<>>, manual |-> FALSE]
         ELSE [ok |-> TRUE, fs |-> RenameFile(f, c.backup_path.v, c.config_path),
               writes |-> <<>>, manual |-> FALSE]
    ELSE [ok |-> TRUE, fs |-> f, writes |-> <<>>, manual |-> FALSE]

undo_changeKernelParamFails(f, c, ioFail) ==
    IF c.variant \in {"KernelParamAdded", "KernelParamRemoved"}
    THEN [ok |-> FALSE, fs |-> f, writes |-> <<>>, manual |-> FALSE]
    ELSE [ok |-> TRUE, fs |-> f, writes |-> <<>>, manual |-> FALSE]

\* StateTracker::undo_change(change): whether it returned Ok, the files it
\* leaves, the sysfs writes it performed and whether it printed that a
\* manual action is needed.  ioFail is an error of the one file system
\* call the branch makes.
undo_change(f, c, ioFail) ==
    CASE c.variant = "FileModified" ->
           IF Exists(f, c.backup_path)
           THEN IF ioFail THEN [ok |-> FALSE, fs |-> f, writes |-> <<>>, manual |-> FALSE]
                ELSE [ok |-> TRUE, fs |-> RenameFile(f, c.backup_path, c.path),
                      writes |-> <<>>, manual |-> FALSE]
           ELSE [ok |-> TRUE, fs |-> f, writes |-> <<>>, manual |-> FALSE]
      [] c.variant = "ModuleLoaded" ->
           IF c.backup_path.some
           THEN IF Exists(f, c.backup_path.v)
                THEN IF ioFail THEN [ok |-> FALSE, fs |-> f, writes |-> <<>>, manual |-> FALSE]
                     ELSE [ok |-> TRUE, fs |-> RenameFile(f, c.backup_path.v, c.config_path),
                           writes |-> <<>>, manual |-> FALSE]
                ELSE \* let _ = fs::remove_file(..): the result is ignored
                     [ok |-> TRUE,
                      fs |-> IF ioFail THEN f ELSE RemoveFile(f, c.config_path),
                      writes |-> <<>>, manual |-> FALSE]
           ELSE IF Exists(f, c.config_path)
                THEN IF ioFail THEN [ok |-> FALSE, fs |-> f, writes |-> <<>>, manual |-> FALSE]
                     ELSE [ok |-> TRUE, fs |-> RemoveFile(f, c.config_path),
                           writes |-> <<>>, manual |-> FALSE]
                ELSE [ok |-> TRUE, fs |-> f, writes |-> <<>>, manual |-> FALSE]
      [] c.variant \in {"KernelParamAdded", "KernelParamRemoved"} ->
           \* "Manual action needed: ..." is printed
           [ok |-> TRUE, fs |-> f, writes |-> <<>>, manual |-> TRUE]
      [] OTHER ->
           \* DriverBound, DriverUnbound: with or without a recorded original
           \* driver only a message is printed; the calls of the binder are
           \* in a comment.
           [ok |-> TRUE, fs |-> f, writes |-> <<>>, manual |-> TRUE]

\* The path a file-restoring change targets, and the backup it names.
TargetOf(c) ==
    CASE c.variant = "FileModified" -> c.path
      [] c.variant = "ModuleLoaded" -> c.config_path
      [] OTHER -> ""
BackupOf(c) ==
    CASE c.variant = "FileModified" -> Some(c.backup_path)
      [] c.variant = "ModuleLoaded" -> c.backup_path
      [] OTHER -> None

\* What one pass of the rollback loop leaves behind: the change popped, its
\* index in the log, whether undo_change returned Ok, and (for the claims)
\* the backup and the target as they were before the undo and the target
\* as it is after.
Attempt(f, c, i, ioFail) ==
    LET r == undo_change(f, c, ioFail)
        b == BackupOf(c)
    IN [idx |-> i, change |-> c, ok |-> r.ok, fault |-> ioFail,
        writes |-> r.writes, manual |-> r.manual,
        touched |-> {p \in Paths : r.fs[p] # f[p]},
        had |-> b.some /\ Exists(f, b.v),
        bak |-> IF b.some THEN f[b.v] ELSE NoFile,
        was |-> IF TargetOf(c) = "" THEN NoFile ELSE f[TargetOf(c)],
        now |-> IF TargetOf(c) = "" THEN NoFile ELSE r.fs[TargetOf(c)]]

\* The order in which the loop takes the entries of a log of length n.
PopOrderForward(n) == [i \in 1..n |-> i]

PopOrder(n) == [i \in 1..n |-> n + 1 - i]      \* self.changes.pop()

\* What is left to undo after one undo returned: an Err is pushed to
\* rollback_errors and the loop goes on.
RemainingAfterStopOnError(order, ok) == IF ok THEN Tail(order) ELSE <<>>

RemainingAfter(order, ok) == Tail(order)

\* while let Some(change) = self.changes.pop() { undo_change(change) ... }
\* `order` is the sequence of indices still to take, F the set of indices
\* whose file system call fails.
RECURSIVE RollbackLoop(_, _, _, _, _)
RollbackLoop(f, log, order, F, acc) ==
    IF order = <<>> THEN [fs |-> f, attempts |-> acc]
    ELSE LET i == Head(order)
             r == undo_change(f, log[i], i \in F)
         IN RollbackLoop(r.fs, log, RemainingAfter(order, r.ok), F,
                         Append(acc, Attempt(f, log[i], i, i \in F)))

\* rollback_errors, in the order they were pushed (one message per failed
\* undo, identified here by the index of the change).
RollbackErrors(attempts) ==
    SelectSeq([j \in 1..Len(attempts) |->
                 IF attempts[j].ok THEN 0 ELSE attempts[j].idx], LAMBDA x : x # 0)

\* What rollback_all returns: the error of save_state (the `?` after the
\* loop), else Ok, else one error joining all rollback errors.
RollbackReturn(saved, errors) ==
    IF ~saved.ok THEN [ok |-> FALSE, kind |-> "save", msgs |-> <<>>]
    ELSE IF errors = <<>> THEN [ok |-> TRUE, kind |-> "", msgs |-> <<>>]
    ELSE [ok |-> FALSE, kind |-> "Other", msgs |-> errors]

(***************************************************************************)
(* StateTracker::generate_cleanup_script: one block per change, each block *)
(* the lines the code pushes, over self.changes.iter().rev().              *)
(***************************************************************************)
Quoted(s) == "\"" \o s \o "\""

\* device_bdf.replace(':', "/")
ReplaceColons(bdf) == IF bdf = Bdf THEN "0000/01/00.0" ELSE bdf

\* The path the script clears the override at, and the path at which sysfs
\* has the driver_override file of a device.
ScriptOverridePath(bdf) == "/sys/bus/pci/devices/" \o ReplaceColons(bdf) \o "/driver_override"
SysfsOverridePath(bdf) == "/sys/bus/pci/devices/" \o bdf \o "/driver_override"

ScriptBlock(c) ==
    CASE c.variant = "FileModified" ->
           << "# Restore file " \o c.path,
              "if [ -f " \o Quoted(c.backup_path) \o " ]; then",
              "  cp -f " \o Quoted(c.backup_path) \o " " \o Quoted(c.path)
                 \o " && rm -f " \o Quoted(c.backup_path),
              "else", "  echo not found", "fi" >>
      [] c.variant = "KernelParamAdded" ->
           << "# Remove kernel parameter '" \o c.parameter \o "' for " \o c.bootloader,
              "echo Manual action needed" >>
      [] c.variant = "KernelParamRemoved" ->
           << "# Restore kernel parameter '" \o c.parameter \o "' for " \o c.bootloader,
              "echo Manual action needed" >>
      [] c.variant = "ModuleLoaded" ->
           IF c.backup_path.some
           THEN << "# Revert module load config for '" \o c.name \o "' at " \o c.config_path,
                   "if [ -f " \o Quoted(c.backup_path.v) \o " ]; then",
                   "  mv -f " \o Quoted(c.backup_path.v) \o " " \o Quoted(c.config_path),
                   "else",
                   "  rm -f " \o Quoted(c.config_path),
                   "fi" >>
           ELSE << "# Revert module load config for '" \o c.name \o "' at " \o c.config_path,
                   "rm -f " \o Quoted(c.config_path) >>
      [] OTHER ->  \* DriverBound | DriverUnbound
           IF c.original_driver.some
           THEN << "# Rebind device " \o c.device_bdf \o " to its original driver",
                   "echo -n > " \o Quoted(ScriptOverridePath(c.device_bdf)) \o " 2>/dev/null",
                   "echo " \o Quoted(c.device_bdf) \o " > "
                      \o Quoted("/sys/bus/pci/drivers/vfio-pci/unbind") \o " 2>/dev/null",
                   "echo " \o Quoted(c.device_bdf)
                      \o " > /sys/bus/pci/drivers_probe 2>/dev/null || echo Failed" >>
           ELSE << "# Original driver for " \o c.device_bdf \o " unknown",
                   "echo Original driver unknown" >>

generate_cleanup_script(chs) ==
    [head |-> <<"#!/bin/bash", "set -e # Exit on error">>,
     blocks |-> [j \in 1..Len(chs) |-> ScriptBlock(chs[PopOrder(Len(chs))[j]])],
     foot |-> <<"echo 'Cleanup script finished.'">>]

(***************************************************************************)
(* What bash does with the script.  A run is [fs, host, alive, writes]:    *)
(* the files, the host, whether the shell is still running (`set -e` ends  *)
(* it at the first command that returns non-zero and is not the left side  *)
(* of || or &&), and the sysfs writes made.  No command is made to fail    *)
(* here beyond what the state of the files and of sysfs decides.           *)
(***************************************************************************)
\* `echo -n > path` for the driver_override file: the redirection fails
\* when sysfs has no file at that path.
ShellOverrideWrite(st, path, data) ==
    IF ~st.alive THEN st
    ELSE IF path = SysfsOverridePath(Bdf) /\ SysfsExists(st.host, DriverOverrideFile)
    THEN [st EXCEPT !.host = SysfsWrite(st.host, DriverOverrideFile, data),
                    !.writes = Append(st.writes, [file |-> DriverOverrideFile, data |-> data])]
    ELSE [st EXCEPT !.alive = FALSE]

\* `echo data > file` for one of the control files at fixed paths;
\* `guarded` is whether the line ends in `|| echo ...`.
ShellControlWrite(st, file, data, guarded) ==
    IF ~st.alive THEN st
    ELSE IF SysfsExists(st.host, file) /\ SysfsAccepts(st.host, file)
    THEN [st EXCEPT !.host = SysfsWrite(st.host, file, data),
                    !.writes = Append(st.writes, [file |-> file, data |-> data])]
    ELSE [st EXCEPT !.alive = guarded]

\* The block of one change, executed.
ExecBlock(st, c) ==
    IF ~st.alive THEN st
    ELSE CASE c.variant = "FileModified" ->
                \* if [ -f backup ]; then cp -f backup path && rm -f backup || echo; fi
                IF Exists(st.fs, c.backup_path)
                THEN [st EXCEPT !.fs = RemoveFile(CopyFile(st.fs, c.backup_path, c.path),
                                                   c.backup_path)]
                ELSE st
           [] c.variant = "ModuleLoaded" ->
                IF c.backup_path.some
                THEN IF Exists(st.fs, c.backup_path.v)
                     THEN [st EXCEPT !.fs = RenameFile(st.fs, c.backup_path.v, c.config_path)]
                     ELSE [st EXCEPT !.fs = RemoveFile(st.fs, c.config_path)]
                ELSE [st EXCEPT !.fs = RemoveFile(st.fs, c.config_path)]
           [] c.variant \in {"DriverBound", "DriverUnbound"} ->
                IF c.original_driver.some
                THEN Bind(ShellOverrideWrite(st, ScriptOverridePath(c.device_bdf), ""), LAMBDA s1 :
                     Bind(ShellControlWrite(s1, VfioUnbindFile, c.device_bdf, FALSE), LAMBDA s2 :
                          ShellControlWrite(s2, ProbeFile, c.device_bdf, TRUE)))
                ELSE st
           [] OTHER -> st      \* echo "Manual action needed: ..."

RECURSIVE ExecBlocks(_, _, _)
ExecBlocks(st, chs, order) ==
    IF order = <<>> THEN st
    ELSE ExecBlocks(ExecBlock(st, chs[Head(order)]), chs, Tail(order))

\* One execution of the script generated for log chs, from files f and
\* host h.
RunScript(f, h, chs) ==
    ExecBlocks([fs |-> f, host |-> h, alive |-> TRUE, writes |-> <<>>],
               chs, PopOrder(Len(chs)))

(***************************************************************************)
(* Inputs of the change-log specification.                                 *)
(***************************************************************************)
ContentX == File(<<TextLine("X")>>)
ContentY == File(<<TextLine("Y")>>)
ContentZ == File(<<TextLine("Z")>>)

TrackedPaths == {VfioConfPath}

\* The changes record_change is called with.
ChangePool ==
    { FileModified(VfioConfPath, BackupName(VfioConfPath, 0)),
      KernelParamRemoved("quiet", "Grub", Some("quiet")),
      ModuleLoaded("vfio_pci", ModulesLoadPath, None),
      ModuleLoaded("vfio_pci", ModulesLoadPath, Some(BackupName(ModulesLoadPath, 0))),
      DriverBound(Bdf, "vfio-pci", Some("nvidia")) }

EmptyFs == [p \in Paths |-> NoFile]

Snapshot(f) == [p \in BasePaths |-> f[p]]

\* The history variable `run` after an operation that leaves log `chs`.
RunAfter(chs, f, pure) ==
    IF chs = <<>> THEN [orig |-> Snapshot(f), pure |-> TRUE]
    ELSE [orig |-> run.orig, pure |-> pure]

(***************************************************************************)
(* Initial states: the tracker has just been constructed (StateTracker::new)*)
(* over a state file that is absent, unparsable or left by an earlier run. *)
(* In Init the files and backups an earlier run left are in place; in      *)
(* InitBackup nothing has been backed up yet.                              *)
(***************************************************************************)
\* A document written by a later version: JSON of the right shape with a
\* Change variant this enum does not have.
UnknownVariantDoc ==
    [ex |-> TRUE, valid |-> TRUE,
     body |-> << ChangeToJson(KernelParamAdded("iommu=pt", "Grub")),
                 [tag |-> "ServiceStarted", obj |-> [name |-> JStr("libvirtd")]] >>]

InitDocs == {NoDoc, BrokenDoc, UnknownVariantDoc,
             DocOf(<<KernelParamAdded("iommu=pt", "Grub")>>)}

InitTracker ==
    /\ clock = 0
    /\ doc \in InitDocs
    /\ changes = new_tracker(doc)
    /\ run = [orig |-> Snapshot(fs), pure |-> changes = <<>>]
    /\ faults = 0
    /\ last = [op |-> "new"]

Init ==
    /\ fs = [EmptyFs EXCEPT ![VfioConfPath] = ContentY,
                           ![BackupName(VfioConfPath, 0)] = ContentX,
                           ![ModulesLoadPath] = ContentZ,
                           ![BackupName(ModulesLoadPath, 0)] = ContentX]
    /\ app = [bootloader |-> "Grub"]
    /\ host = DefaultHost
    /\ InitTracker

InitBackup ==
    /\ \E c \in {NoFile, ContentZ} : fs = [EmptyFs EXCEPT ![VfioConfPath] = c]
    /\ app = [bootloader |-> "Grub"]
    /\ host = DefaultHost
    /\ InitTracker

(***************************************************************************)
(* Actions of the change log.                                              *)
(***************************************************************************)
\* A second of wall-clock time passes.
Tick ==
    /\ clock < MaxClock
    /\ clock' = clock + 1
    /\ UNCHANGED <<fs, changes, doc, run, faults, app, host, last>>

\* StateTracker::record_change(change): push, then save_state.
RecordChangePushReverted ==
    \E c \in ChangePool, outcome \in SaveOutcomesAt(faults) :
      /\ Len(changes) < MaxLog
      /\ LET saved == save_state(Append(changes, c), doc, outcome)
         IN /\ changes' = IF saved.ok THEN Append(changes, c) ELSE changes
            /\ doc' = saved.doc
            /\ last' = [op |-> "record_change", change |-> c, pre |-> changes,
                        ret |-> [ok |-> saved.ok]]
      /\ run' = RunAfter(changes', fs, FALSE)
      /\ faults' = FaultsAfter(faults, outcome)
      /\ UNCHANGED <<fs, clock, app, host>>

RecordChangePrepends ==
    \E c \in ChangePool, outcome \in SaveOutcomesAt(faults) :
      /\ Len(changes) < MaxLog
      /\ LET saved == save_state(<<c>> \o changes, doc, outcome)
         IN /\ changes' = <<c>> \o changes
            /\ doc' = saved.doc
            /\ last' = [op |-> "record_change", change |-> c, pre |-> changes,
                        ret |-> [ok |-> saved.ok]]
      /\ run' = RunAfter(changes', fs, FALSE)
      /\ faults' = FaultsAfter(faults, outcome)
      /\ UNCHANGED <<fs, clock, app, host>>

RecordChange ==
    \E c \in ChangePool, outcome \in SaveOutcomesAt(faults) :
      /\ Len(changes) < MaxLog
      /\ LET saved == save_state(Append(changes, c), doc, outcome)
         IN /\ changes' = Append(changes, c)
            /\ doc' = saved.doc
            /\ last' = [op |-> "record_change", change |-> c, pre |-> changes,
                        ret |-> [ok |-> saved.ok]]
      /\ run' = RunAfter(changes', fs, FALSE)
      /\ faults' = FaultsAfter(faults, outcome)
      /\ UNCHANGED <<fs, clock, app, host>>

\* The discipline "backup, then write, then record" applied to one file:
\* create_timestamped_backup(p), the file is overwritten, and
\* record_change(FileModified{p, returned backup path}).
ModifyRecorded ==
    \E p \in TrackedPaths, c \in {ContentX, ContentY}, copyOk \in BOOLEAN,
       outcome \in SaveOutcomesAt(faults) :
      /\ Len(changes) < MaxLog
      /\ fs[p] # c
      /\ LET b == create_timestamped_backup(fs, p, clock, copyOk)
         IN IF ~b.ok
            THEN /\ last' = [op |-> "modify", path |-> p, ret |-> [ok |-> FALSE],
                             before |-> fs[p], backup |-> [ok |-> FALSE]]
                 /\ UNCHANGED <<fs, changes, doc, run, faults>>
            ELSE LET ch == FileModified(p, b.path)
                     saved == save_state(Append(changes, ch), doc, outcome)
                 IN /\ fs' = WriteFile(b.fs, p, c)
                    /\ changes' = Append(changes, ch)
                    /\ doc' = saved.doc
                    /\ run' = RunAfter(changes', fs', run.pure)
                    /\ faults' = FaultsAfter(faults, outcome)
                    /\ last' = [op |-> "modify", path |-> p, change |-> ch,
                                ret |-> [ok |-> saved.ok], before |-> fs[p],
                                backup |-> [ok |-> TRUE, path |-> b.path,
                                            copy |-> b.fs[b.path], original |-> b.fs[p]]]
      /\ UNCHANGED <<clock, app, host>>

RollbackAllKeepsFailed ==
    \E F \in SUBSET (1..Len(changes)), outcome \in SaveOutcomesAt(faults) :
      LET r == RollbackLoop(fs, changes, PopOrder(Len(changes)), F, <<>>)
          errors == RollbackErrors(r.attempts)
          kept == SelectSeq([i \in 1..Len(changes) |-> [i |-> i, c |-> changes[i]]],
                            LAMBDA e : \E j \in 1..Len(errors) : errors[j] = e.i)
          left == [i \in 1..Len(kept) |-> kept[i].c]
          saved == save_state(left, doc, outcome)
      IN /\ fs' = r.fs
         /\ changes' = left
         /\ doc' = saved.doc
         /\ run' = RunAfter(changes', fs', TRUE)
         /\ faults' = FaultsAfter(faults, outcome)
         /\ last' = [op |-> "rollback_all", pre |-> changes, attempts |-> r.attempts,
                     errors |-> errors, orig |-> run.orig, pure |-> run.pure,
                     ret |-> RollbackReturn(saved, errors)]
         /\ UNCHANGED <<clock, app, host>>

\* StateTracker::rollback_all: the loop, then save_state, then the result.
RollbackAll ==
    \E F \in SUBSET (1..Len(changes)), outcome \in SaveOutcomesAt(faults) :
      LET r == RollbackLoop(fs, changes, PopOrder(Len(changes)), F, <<>>)
          saved == save_state(<<>>, doc, outcome)
          errors == RollbackErrors(r.attempts)
      IN /\ fs' = r.fs
         /\ changes' = <<>>
         /\ doc' = saved.doc
         /\ run' = RunAfter(changes', fs', TRUE)
         /\ faults' = FaultsAfter(faults, outcome)
         /\ last' = [op |-> "rollback_all", pre |-> changes, attempts |-> r.attempts,
                     errors |-> errors, orig |-> run.orig, pure |-> run.pure,
                     ret |-> RollbackReturn(saved, errors)]
         /\ UNCHANGED <<clock, app, host>>

GenerateCleanupScriptExecuting ==
    /\ fs' = RunScript(fs, host, changes).fs
    /\ last' = [op |-> "generate_cleanup_script", pre |-> changes,
                script |-> generate_cleanup_script(changes),
                once |-> [fs |-> fs', host |-> host],
                twice |-> [fs |-> fs', host |-> host]]
    /\ UNCHANGED <<clock, changes, doc, run, faults, app, host>>

\* StateTracker::generate_cleanup_script.  `once` and `twice` are what one
\* and two executions of the returned script would leave, from the files
\* and the host of this moment.
GenerateCleanupScript ==
    \E r1 \in {RunScript(fs, host, changes)} :
      \E r2 \in {RunScript(r1.fs, r1.host, changes)} :
        /\ last' = [op |-> "generate_cleanup_script", pre |-> changes,
                    script |-> generate_cleanup_script(changes),
                    once |-> [fs |-> r1.fs, host |-> r1.host],
                    twice |-> [fs |-> r2.fs, host |-> r2.host]]
        /\ UNCHANGED <<fs, clock, changes, doc, run, faults, app, host>>

ClearStateLogKept ==
    \E outcome \in SaveOutcomesAt(faults) :
      LET saved == save_state(changes, doc, outcome)
      IN /\ changes' = changes
         /\ doc' = saved.doc
         /\ run' = RunAfter(changes', fs, run.pure)
         /\ faults' = FaultsAfter(faults, outcome)
         /\ last' = [op |-> "clear_state", pre |-> changes, ret |-> [ok |-> saved.ok]]
         /\ UNCHANGED <<fs, clock, app, host>>

\* StateTracker::clear_state
ClearState ==
    \E outcome \in SaveOutcomesAt(faults) :
      LET saved == save_state(<<>>, doc, outcome)
      IN /\ changes' = <<>>
         /\ doc' = saved.doc
         /\ run' = RunAfter(changes', fs, TRUE)
         /\ faults' = FaultsAfter(faults, outcome)
         /\ last' = [op |-> "clear_state", pre |-> changes, ret |-> [ok |-> saved.ok]]
         /\ UNCHANGED <<fs, clock, app, host>>

\* The process ends and a later one constructs the tracker again from the
\* same path (StateTracker::new).
Restart ==
    /\ changes' = new_tracker(doc)
    /\ run' = RunAfter(changes', fs, run.pure /\ changes' = changes)
    /\ last' = [op |-> "new", pre |-> changes, from |-> doc,
                ret |-> [ok |-> TRUE, warned |-> doc.ex /\ ~load_state(doc).ok]]
    /\ UNCHANGED <<fs, clock, doc, faults, app, host>>

Next ==
    \/ RecordChange
    \/ RollbackAll
    \/ GenerateCleanupScript
    \/ ClearState
    \/ Restart

Spec == Init /\ [][Next]_vars

NextBackup ==
    \/ Tick
    \/ ModifyRecorded
    \/ RollbackAll
    \/ Restart

SpecBackup == InitBackup /\ [][NextBackup]_vars

(***************************************************************************)
(* Kernel parameters.  Strings are atomic here, so the parameters the      *)
(* model uses are listed, in the byte order Vec<String>::sort() gives,     *)
(* with the part of each before the first '='.                             *)
(***************************************************************************)
ParamOrder ==
    << "amd_iommu=on", "intel_iommu=on", "iommu", "iommu=on", "iommu=pt",
       "quiet", "splash" >>

Params == {ParamOrder[i] : i \in 1..Len(ParamOrder)}

\* param.split('=').next()
KeyOf(p) ==
    CASE p = "amd_iommu=on" -> "amd_iommu"
      [] p = "intel_iommu=on" -> "intel_iommu"
      [] p \in {"iommu", "iommu=on", "iommu=pt"} -> "iommu"
      [] OTHER -> p

\* p.starts_with(&format!("{}=", key)), for a key that holds no '='
StartsWithKeyEq(p, key) == KeyOf(p) = key /\ p # key

\* final_params.sort()
SortParams(S) == SelectSeq(ParamOrder, LAMBDA x : x \in S)

\* The payload between the quotes is kept as the pieces a split at single
\* spaces gives; an empty piece stands for one more blank in a row.
\* split_whitespace() drops the empty pieces.
SplitWhitespace(pieces) == SelectSeq(pieces, LAMBDA x : x # "")

RECURSIVE Join(_)
Join(pieces) ==        \* final_params.join(" ")
    IF pieces = <<>> THEN ""
    ELSE IF Len(pieces) = 1 THEN pieces[1]
    ELSE pieces[1] \o " " \o Join(Tail(pieces))

SeqToSet(q) == {q[i] : i \in 1..Len(q)}

(***************************************************************************)
(* The GRUB file.  An assignment line is                                   *)
(*   GRUB_CMDLINE_LINUX_DEFAULT=<open><payload><close><tail>               *)
(* with open a quote, close a quote or nothing (unterminated), and tail    *)
(* what follows the closing quote on the line.                             *)
(***************************************************************************)
AssignLine(open, pieces, close, tail) ==
    [k |-> "assign", s |-> "", open |-> open, ps |-> pieces, close |-> close, tail |-> tail]

\* Regex::new(r#"(?m)^\s*GRUB_CMDLINE_LINUX_DEFAULT\s*=\s*(["'])(.*?)\1"#):
\* the pattern holds the backreference \1, which the regex crate does not
\* support; Regex::new returns Err and read_grub_cmdline maps it to
\* io::Error(Other, "Regex error: ...").
ReadRegexCompiles == FALSE

\* What the read pattern is written to match: a line whose payload is
\* closed by the quote that opened it.
ReadMatches(line) == line.k = "assign" /\ line.close = line.open

\* (?m)^(?P<prefix>\s*KEY\s*=\s*["'])(?P<params>.*?)(?P<suffix>["']\s*)$ :
\* any quote opens, any quote closes, nothing but blanks may follow.
WriteMatches(line) == line.k = "assign" /\ line.close # "" /\ line.tail = ""

FirstIndex(lines, Test(_)) ==
    IF \E i \in 1..Len(lines) : Test(lines[i])
    THEN CHOOSE i \in 1..Len(lines) : Test(lines[i]) /\ \A j \in 1..(i - 1) : ~Test(lines[j])
    ELSE 0

\* GrubConfig::read_grub_cmdline
read_grub_cmdline(f) ==
    IF ~Exists(f, GrubPath) THEN [ok |-> TRUE, ps |-> <<>>]
    ELSE IF ~ReadRegexCompiles THEN [ok |-> FALSE, kind |-> "Other", ps |-> <<>>]
    ELSE LET i == FirstIndex(f[GrubPath].lines, ReadMatches)
         IN [ok |-> TRUE, ps |-> IF i = 0 THEN <<>> ELSE f[GrubPath].lines[i].ps]

write_grub_cmdlineRewritesLine(f, pieces, ioOk) ==
    IF ~Exists(f, GrubPath) THEN [ok |-> FALSE, kind |-> "NotFound", fs |-> f]
    ELSE IF ~ioOk THEN [ok |-> FALSE, kind |-> "io", fs |-> f]
    ELSE LET c == f[GrubPath]
             i == FirstIndex(c.lines, WriteMatches)
             new == IF i # 0
                    THEN [c EXCEPT !.lines[i] = AssignLine("\"", pieces, "\"", "")]
                    ELSE [ex |-> TRUE, nl |-> TRUE,
                          lines |-> (IF c.nl THEN Append(c.lines, TextLine("")) ELSE c.lines)
                                    \o <<AssignLine("\"", pieces, "\"", "")>>]
         IN [ok |-> TRUE, kind |-> "", fs |-> WriteFile(f, GrubPath, new)]

\* GrubConfig::write_grub_cmdline
write_grub_cmdline(f, pieces, ioOk) ==
    IF ~Exists(f, GrubPath) THEN [ok |-> FALSE, kind |-> "NotFound", fs |-> f]
    ELSE IF ~ioOk THEN [ok |-> FALSE, kind |-> "io", fs |-> f]
    ELSE LET c == f[GrubPath]
             i == FirstIndex(c.lines, WriteMatches)
             new == IF i # 0
                    THEN [c EXCEPT !.lines[i].ps = pieces]
                    ELSE \* content.push_str("\nKEY=\"{}\"\n")
                         [ex |-> TRUE, nl |-> TRUE,
                          lines |-> (IF c.nl THEN Append(c.lines, TextLine("")) ELSE c.lines)
                                    \o <<AssignLine("\"", pieces, "\"", "")>>]
         IN [ok |-> TRUE, kind |-> "", fs |-> WriteFile(f, GrubPath, new)]

\* GrubConfig::get_config_parameters
get_config_parameters(f) ==
    LET r == read_grub_cmdline(f)
    IN IF r.ok THEN [ok |-> TRUE, params |-> SplitWhitespace(r.ps)]
       ELSE [ok |-> FALSE, params |-> <<>>]

\* The loop of add_parameters over params_to_add: retain, insert, changed.
RECURSIVE AddLoop(_, _, _)
AddLoop(cur, P, changed) ==
    IF P = <<>> THEN [set |-> cur, changed |-> changed]
    ELSE LET param == Head(P)
             key == KeyOf(param)
             kept == {q \in cur : ~StartsWithKeyEq(q, key) /\ q # key}
             inserted == param \notin kept
             after == kept \cup {param}
         IN AddLoop(after, Tail(P),
                    changed \/ inserted \/ Cardinality(after) # Cardinality(cur))

\* The loop of remove_parameters over params_to_remove.
RECURSIVE RemoveLoop(_, _, _)
RemoveLoop(cur, P, changed) ==
    IF P = <<>> THEN [set |-> cur, changed |-> changed]
    ELSE LET param == Head(P)
             kept == {q \in cur : q # param /\ KeyOf(q) # KeyOf(param)}
         IN RemoveLoop(kept, Tail(P), changed \/ Cardinality(kept) < Cardinality(cur))

\* What add_parameters and remove_parameters do once the loop is over:
\* nothing when unchanged; under dry_run only the report; else
\* create_backup, write_grub_cmdline, Ok(true).
PersistParams(f, r, dry_run, now, copyOk, writeOk) ==
    IF ~r.changed THEN [ok |-> TRUE, changed |-> FALSE, fs |-> f]
    ELSE IF dry_run THEN [ok |-> TRUE, changed |-> TRUE, fs |-> f]
    ELSE LET b == create_timestamped_backup(f, GrubPath, now, copyOk)
         IN IF ~b.ok THEN [ok |-> FALSE, changed |-> FALSE, fs |-> f]
            ELSE LET w == write_grub_cmdline(b.fs, SortParams(r.set), writeOk)
                 IN IF ~w.ok THEN [ok |-> FALSE, changed |-> FALSE, fs |-> b.fs]
                    ELSE [ok |-> TRUE, changed |-> TRUE, fs |-> w.fs]

\* GrubConfig::add_parameters
grub_add_parameters(f, P, dry_run, now, copyOk, writeOk) ==
    LET cur == read_grub_cmdline(f)
    IN IF ~cur.ok THEN [ok |-> FALSE, changed |-> FALSE, fs |-> f]
       ELSE PersistParams(f, AddLoop(SeqToSet(SplitWhitespace(cur.ps)), P, FALSE),
                          dry_run, now, copyOk, writeOk)

\* GrubConfig::remove_parameters
grub_remove_parameters(f, P, dry_run, now, copyOk, writeOk) ==
    LET cur == read_grub_cmdline(f)
    IN IF ~cur.ok THEN [ok |-> FALSE, changed |-> FALSE, fs |-> f]
       ELSE PersistParams(f, RemoveLoop(SeqToSet(SplitWhitespace(cur.ps)), P, FALSE),
                          dry_run, now, copyOk, writeOk)

(***************************************************************************)
(* GrubConfig::update_bootloader.  `tool` is what the probes of            *)
(* /usr/bin/update-grub, /usr/sbin/grub2-mkconfig (with its two output     *)
(* paths) and /usr/bin/grub-mkconfig find; `spawned` is whether the        *)
(* command could be started, `exit` its exit code.                         *)
(***************************************************************************)
GrubTools ==
    {"update-grub", "grub2-mkconfig fedora", "grub2-mkconfig grub2",
     "grub2-mkconfig no output path", "grub-mkconfig", "none"}

grub_update_bootloaderNoToolOk(tool, dry_run, spawned, exit) ==
    IF tool = "none" THEN [ok |-> TRUE, kind |-> "", ran |-> FALSE]
    ELSE IF tool = "grub2-mkconfig no output path" THEN [ok |-> TRUE, kind |-> "", ran |-> FALSE]
    ELSE IF dry_run THEN [ok |-> TRUE, kind |-> "", ran |-> FALSE]
    ELSE IF ~spawned THEN [ok |-> FALSE, kind |-> "io", ran |-> FALSE]
    ELSE IF exit = 0 THEN [ok |-> TRUE, kind |-> "", ran |-> TRUE]
    ELSE [ok |-> FALSE, kind |-> "Other", ran |-> TRUE]

grub_update_bootloader(tool, dry_run, spawned, exit) ==
    IF tool = "none" THEN [ok |-> FALSE, kind |-> "NotFound", ran |-> FALSE]
    ELSE IF tool = "grub2-mkconfig no output path" THEN [ok |-> TRUE, kind |-> "", ran |-> FALSE]
    ELSE IF dry_run THEN [ok |-> TRUE, kind |-> "", ran |-> FALSE]
    ELSE IF ~spawned THEN [ok |-> FALSE, kind |-> "io", ran |-> FALSE]
    ELSE IF exit = 0 THEN [ok |-> TRUE, kind |-> "", ran |-> TRUE]
    ELSE [ok |-> FALSE, kind |-> "Other", ran |-> TRUE]

(***************************************************************************)
(* KernelstubConfig::add_parameters: one `sudo kernelstub -a <param>` per  *)
(* parameter; exits[i] is how the i-th command ends.                       *)
(***************************************************************************)
run_kernelstub(dry_run, exit) == dry_run \/ exit = 0

kernelstub_add_parametersRunsInDryRun(P, dry_run, exits) ==
    [ok |-> TRUE,
     changed |-> \E i \in 1..Len(P) : run_kernelstub(dry_run, exits[i]),
     cmds |-> [i \in 1..Len(P) |-> <<"-a", P[i]>>]]

kernelstub_add_parameters(P, dry_run, exits) ==
    [ok |-> TRUE,
     changed |-> \E i \in 1..Len(P) : run_kernelstub(dry_run, exits[i]),
     cmds |-> IF dry_run THEN <<>> ELSE [i \in 1..Len(P) |-> <<"-a", P[i]>>]]

\* KernelstubConfig::remove_parameters: one `sudo kernelstub -d <param>` each.
kernelstub_remove_parameters(P, dry_run, exits) ==
    [ok |-> TRUE,
     changed |-> \E i \in 1..Len(P) : run_kernelstub(dry_run, exits[i]),
     cmds |-> IF dry_run THEN <<>> ELSE [i \in 1..Len(P) |-> <<"-d", P[i]>>]]

\* What the commands that were run and exited with 0 leave in kernelstub's
\* configuration: -a adds the option, -d deletes it.
RECURSIVE KernelstubOptions(_, _, _, _)
KernelstubOptions(kopts, cmds, exits, i) ==
    IF i > Len(cmds) THEN kopts
    ELSE KernelstubOptions(
           IF exits[i] # 0 THEN kopts
           ELSE IF cmds[i][1] = "-a" THEN kopts \cup {cmds[i][2]}
           ELSE kopts \ {cmds[i][2]},
           cmds, exits, i + 1)

\* KernelstubConfig::update_bootloader: prints, runs nothing.
kernelstub_update_bootloader(dry_run) == [ok |-> TRUE, kind |-> "", ran |-> FALSE]

\* SystemdBootConfig::add_parameters: the placeholder.
systemd_boot_add_parameters(P, dry_run) == [ok |-> TRUE, changed |-> dry_run]

\* SystemdBootConfig::remove_parameters: the placeholder.
systemd_boot_remove_parameters(P, dry_run) == [ok |-> TRUE, changed |-> dry_run]

\* SystemdBootConfig::update_bootloader: prints, runs nothing.
systemd_boot_update_bootloader(dry_run) == [ok |-> TRUE, kind |-> "", ran |-> FALSE]

(***************************************************************************)
(* VfioManager::configure_modprobe (dry_run = false).  The lines of        *)
(* vfio.conf the model uses, and how the code classifies them.             *)
(***************************************************************************)
GpuIds == {"10de:1eb1", "1002:67df"}

OptionsLine(ids) == "options vfio-pci ids=" \o ids \o " disable_vga=1 disable_idle_d3=1"
OldOptionsLine == "options vfio-pci ids=8086:1234"

SoftdepLines ==
    << "softdep drm pre: vfio-pci", "softdep amdgpu pre: vfio-pci",
       "softdep nouveau pre: vfio-pci", "softdep radeon pre: vfio-pci",
       "softdep nvidia pre: vfio-pci", "softdep i915 pre: vfio-pci" >>

OptionsLines == {OptionsLine(i) : i \in GpuIds} \cup {OldOptionsLine}
CommentLines == {"# " \o l : l \in OptionsLines} \cup {"# local settings"}

\* stripped_line.is_empty() || stripped_line.starts_with('#')
IsBlankOrComment(t) == t = "" \/ t \in CommentLines
\* stripped_line.starts_with("options vfio-pci")
IsOptions(t) == t \in OptionsLines
\* starts_with("softdep ") && contains(" pre: vfio-pci")
IsSoftdep(t) == t \in SeqToSet(SoftdepLines)

\* The loop over current_vfio_content.lines(): blank lines and comments are
\* kept, the first options line is replaced, every later one is commented
\* out, soft dependencies are kept and remembered, anything else is kept.
VfioLoopKeepsDuplicates(lines, options_line) ==
    LET isOpt(i) == ~IsBlankOrComment(lines[i].s) /\ IsOptions(lines[i].s)
        foundBefore(i) == \E j \in 1..(i - 1) : isOpt(j)
    IN [out |-> [i \in 1..Len(lines) |->
                   IF ~isOpt(i) THEN lines[i]
                   ELSE IF ~foundBefore(i) THEN TextLine(options_line)
                   ELSE lines[i]],
        found |-> \E i \in 1..Len(lines) : isOpt(i),
        softdeps |-> {lines[i].s : i \in {j \in 1..Len(lines) :
                         /\ ~IsBlankOrComment(lines[j].s)
                         /\ ~IsOptions(lines[j].s)
                         /\ IsSoftdep(lines[j].s)}}]

VfioLoop(lines, options_line) ==
    LET isOpt(i) == ~IsBlankOrComment(lines[i].s) /\ IsOptions(lines[i].s)
        foundBefore(i) == \E j \in 1..(i - 1) : isOpt(j)
    IN [out |-> [i \in 1..Len(lines) |->
                   IF ~isOpt(i) THEN lines[i]
                   ELSE IF ~foundBefore(i) THEN TextLine(options_line)
                   ELSE TextLine("# " \o lines[i].s)],
        found |-> \E i \in 1..Len(lines) : isOpt(i),
        softdeps |-> {lines[i].s : i \in {j \in 1..Len(lines) :
                         /\ ~IsBlankOrComment(lines[j].s)
                         /\ ~IsOptions(lines[j].s)
                         /\ IsSoftdep(lines[j].s)}}]

NewVfioContent(current, ids) ==
    Bind(VfioLoop(current.lines, OptionsLine(ids)), LAMBDA r :
      LET withOpt == IF r.found THEN r.out ELSE Append(r.out, TextLine(OptionsLine(ids)))
          missing == SelectSeq(SoftdepLines, LAMBDA d : d \notin r.softdeps)
      IN File(withOpt \o [i \in 1..Len(missing) |-> TextLine(missing[i])]))

ModulesLoadContent ==
    File(<<TextLine("vfio"), TextLine("vfio_iommu_type1"), TextLine("vfio_pci"),
           TextLine("vfio_virqfd")>>)

\* fs::read_to_string(path).unwrap_or_default(): an absent file reads as "".
ReadOrDefault(f, p) == IF Exists(f, p) THEN f[p] ELSE File(<<>>)

\* One "compare, backup, create, write" step of configure_modprobe;
\* writeOk = FALSE is a failing File::create.  `wrote` holds the path when
\* the file was written, `backups` the path create_timestamped_backup
\* returned when it was called.
RewriteIfDifferent(f, p, new, now, writeOk) ==
    IF new = ReadOrDefault(f, p)
    THEN [ok |-> TRUE, fs |-> f, wrote |-> {}, backups |-> {}]
    ELSE Bind(create_timestamped_backup(f, p, now, TRUE), LAMBDA b :
           IF ~writeOk
           THEN [ok |-> FALSE, fs |-> b.fs, wrote |-> {}, backups |-> {b.path}]
           ELSE [ok |-> TRUE, fs |-> WriteFile(b.fs, p, new), wrote |-> {p},
                 backups |-> {b.path}])

ModprobeFailures == {"none", "vfio.conf", "vfio-pci-load.conf"}

configure_modprobe(f, ids, now, failAt) ==
    Bind(NewVfioContent(ReadOrDefault(f, VfioConfPath), ids), LAMBDA new :
      Bind(RewriteIfDifferent(f, VfioConfPath, new, now, failAt # "vfio.conf"), LAMBDA v :
        IF ~v.ok THEN v
        ELSE Bind(RewriteIfDifferent(v.fs, ModulesLoadPath, ModulesLoadContent, now,
                                     failAt # "vfio-pci-load.conf"), LAMBDA m :
               [ok |-> m.ok, fs |-> m.fs, wrote |-> v.wrote \cup m.wrote,
                backups |-> v.backups \cup m.backups])))

(***************************************************************************)
(* VfioManager::bind_device and unbind_device.  The sysfs control files    *)
(* are write-only: a write is a request to the kernel.  SysfsExists says   *)
(* which control files exist, SysfsAccepts which requests the kernel       *)
(* takes, SysfsWrite what an accepted request does.                        *)
(***************************************************************************)
\* The PciDevice values the operations are called with: the driver field
\* is what detection saw, not necessarily the binding of this moment.
Devices == [bdf : {Bdf}, driver : {None, Some(NativeDriver), Some("vfio-pci")}]

bind_deviceDryRunProbing(h, device, dry_run, failAt) ==
    IF dry_run
    THEN [ok |-> SysfsExists(h, VfioBindFile),
          kind |-> IF SysfsExists(h, VfioBindFile) THEN "" ELSE "NotFound",
          host |-> h, writes |-> <<>>]
    ELSE Bind([ok |-> TRUE, kind |-> "", host |-> h, writes |-> <<>>], LAMBDA s0 :
         Bind(IF device.driver.some
              THEN SysfsStep(s0, DriverUnbindFile, device.bdf, failAt = 1, FALSE)
              ELSE s0, LAMBDA s1 :
         Bind(SysfsStep(s1, DriverOverrideFile, "vfio-pci", failAt = 2, FALSE), LAMBDA s2 :
              SysfsStep(s2, VfioBindFile, device.bdf, failAt = 3, TRUE))))

bind_deviceChecksBindFirst(h, device, dry_run, failAt) ==
    IF dry_run THEN [ok |-> TRUE, kind |-> "", host |-> h, writes |-> <<>>]
    ELSE IF ~SysfsExists(h, VfioBindFile)
    THEN [ok |-> FALSE, kind |-> "NotFound", host |-> h, writes |-> <<>>]
    ELSE Bind([ok |-> TRUE, kind |-> "", host |-> h, writes |-> <<>>], LAMBDA s0 :
         Bind(IF device.driver.some
              THEN SysfsStep(s0, DriverUnbindFile, device.bdf, failAt = 1, FALSE)
              ELSE s0, LAMBDA s1 :
         Bind(SysfsStep(s1, DriverOverrideFile, "vfio-pci", failAt = 2, FALSE), LAMBDA s2 :
              SysfsStep(s2, VfioBindFile, device.bdf, failAt = 3, TRUE))))

bind_deviceBindBeforeOverride(h, device, dry_run, failAt) ==
    IF dry_run THEN [ok |-> TRUE, kind |-> "", host |-> h, writes |-> <<>>]
    ELSE Bind([ok |-> TRUE, kind |-> "", host |-> h, writes |-> <<>>], LAMBDA s0 :
         Bind(IF device.driver.some
              THEN SysfsStep(s0, DriverUnbindFile, device.bdf, failAt = 1, FALSE)
              ELSE s0, LAMBDA s1 :
         Bind(SysfsStep(s1, VfioBindFile, device.bdf, failAt = 3, TRUE), LAMBDA s2 :
              SysfsStep(s2, DriverOverrideFile, "vfio-pci", failAt = 2, FALSE))))

\* VfioManager::bind_device; failAt is the step whose write fails (0: none).
bind_device(h, device, dry_run, failAt) ==
    IF dry_run THEN [ok |-> TRUE, kind |-> "", host |-> h, writes |-> <<>>]
    ELSE Bind([ok |-> TRUE, kind |-> "", host |-> h, writes |-> <<>>], LAMBDA s0 :
         Bind(IF device.driver.some
              THEN SysfsStep(s0, DriverUnbindFile, device.bdf, failAt = 1, FALSE)
              ELSE s0, LAMBDA s1 :
         Bind(SysfsStep(s1, DriverOverrideFile, "vfio-pci", failAt = 2, FALSE), LAMBDA s2 :
              SysfsStep(s2, VfioBindFile, device.bdf, failAt = 3, TRUE))))

unbind_deviceProbeBeforeClear(h, device, dry_run, failAt) ==
    IF dry_run THEN [ok |-> TRUE, kind |-> "", host |-> h, writes |-> <<>>]
    ELSE Bind([ok |-> TRUE, kind |-> "", host |-> h, writes |-> <<>>], LAMBDA s0 :
         Bind(SysfsStep(s0, VfioUnbindFile, device.bdf, failAt = 1, FALSE), LAMBDA s1 :
         Bind(SysfsStep(s1, ProbeFile, device.bdf, failAt = 3, TRUE), LAMBDA s2 :
              SysfsStep(s2, DriverOverrideFile, "", failAt = 2, FALSE))))

\* VfioManager::unbind_device
unbind_device(h, device, dry_run, failAt) ==
    IF dry_run THEN [ok |-> TRUE, kind |-> "", host |-> h, writes |-> <<>>]
    ELSE Bind([ok |-> TRUE, kind |-> "", host |-> h, writes |-> <<>>], LAMBDA s0 :
         Bind(SysfsStep(s0, VfioUnbindFile, device.bdf, failAt = 1, FALSE), LAMBDA s1 :
         Bind(SysfsStep(s1, DriverOverrideFile, "", failAt = 2, FALSE), LAMBDA s2 :
              SysfsStep(s2, ProbeFile, device.bdf, failAt = 3, TRUE))))

(***************************************************************************)
(* handle_key_event, KeyCode::Char('c'): the configuration workflow.       *)
(***************************************************************************)
RequiredParams == <<"intel_iommu=on", "iommu=pt">>

BootKinds == {"Grub", "SystemdBoot", "PopOsKernelstub", "Other"}

\* boot_manager.add_parameters(&required_params, false), by backend.
backend_add_parameters(kind, f, h, now, env) ==
    CASE kind = "Grub" ->
           Bind(grub_add_parameters(f, RequiredParams, FALSE, now, TRUE, env.grubWrite),
                LAMBDA r : [ok |-> r.ok, changed |-> r.changed, fs |-> r.fs, host |-> h])
      [] kind = "PopOsKernelstub" ->
           Bind(kernelstub_add_parameters(RequiredParams, FALSE, env.exits),
                LAMBDA r : [ok |-> r.ok, changed |-> r.changed, fs |-> f,
                            host |-> [h EXCEPT !.kopts =
                                        KernelstubOptions(h.kopts, r.cmds, env.exits, 1)]])
      [] OTHER ->
           Bind(systemd_boot_add_parameters(RequiredParams, FALSE),
                LAMBDA r : [ok |-> r.ok, changed |-> r.changed, fs |-> f, host |-> h])

\* boot_manager.update_bootloader(false), by backend.
backend_update_bootloader(kind, env) ==
    IF kind = "Grub" THEN grub_update_bootloader(env.tool, FALSE, TRUE, env.exit).ok
    ELSE TRUE

\* Steps 1 to 3 of the workflow: what they leave in the file system, the
\* changes buffered in changes_to_record and whether every step was Ok.
WorkflowSteps(kind, f, h, id, now, env) ==
    Bind(configure_modprobe(f, id, now, env.modprobe), LAMBDA m :
      IF ~m.ok THEN [fs |-> m.fs, host |-> h, buffer |-> <<>>, success |-> FALSE]
      ELSE IF kind = "Other"      \* "Bootloader Manager not initialized."
      THEN [fs |-> m.fs, host |-> h, buffer |-> <<>>, success |-> FALSE]
      ELSE Bind(backend_add_parameters(kind, m.fs, h, now, env), LAMBDA r :
             LET buffer == IF r.ok /\ r.changed
                           THEN [i \in 1..Len(RequiredParams) |->
                                   KernelParamAdded(RequiredParams[i], kind)]
                           ELSE <<>>
                 step2 == r.ok /\ (r.changed => backend_update_bootloader(kind, env))
             IN [fs |-> r.fs, host |-> r.host, buffer |-> buffer,
                 success |-> step2 /\ env.initramfs]))

\* for change in changes_to_record { record_change(change) or break }
RECURSIVE RecordAll(_, _, _, _)
RecordAll(chs, d, buffer, outcomes) ==
    IF buffer = <<>> THEN [changes |-> chs, doc |-> d, ok |-> TRUE, failed |-> 0]
    ELSE LET saved == save_state(Append(chs, Head(buffer)), d, Head(outcomes))
         IN IF ~saved.ok
            THEN [changes |-> Append(chs, Head(buffer)), doc |-> saved.doc, ok |-> FALSE,
                  failed |-> 1]
            ELSE RecordAll(Append(chs, Head(buffer)), saved.doc, Tail(buffer), Tail(outcomes))

\* What the environment does during one run of the workflow; only the
\* kernelstub backend runs one command per parameter.
WorkflowEnvs(kind) ==
    [modprobe : ModprobeFailures, grubWrite : {TRUE},
     exits : IF kind = "PopOsKernelstub" THEN {<<0, 0>>, <<0, 1>>, <<1, 1>>} ELSE {<<0, 0>>},
     tool : IF kind = "Grub" THEN {"update-grub", "none"} ELSE {"update-grub"},
     exit : {0}, initramfs : BOOLEAN]

(***************************************************************************)
(* The bootloader specification: the GRUB backend called directly, and the *)
(* workflow.                                                               *)
(***************************************************************************)
WellFormedGrub == File(<<TextLine("GRUB_TIMEOUT=5"),
                         AssignLine("\"", <<"quiet", "splash">>, "\"", "")>>)
WellFormedIommuOn == File(<<AssignLine("'", <<"iommu=on", "", "quiet">>, "'", "")>>)
TrailingCommentGrub == File(<<AssignLine("\"", <<"quiet">>, "\"", " # default")>>)
UnterminatedGrub == FileNoNl(<<AssignLine("\"", <<"quiet">>, "", "")>>)

InitGrubFiles == {NoFile, WellFormedGrub, WellFormedIommuOn, TrailingCommentGrub, UnterminatedGrub}

InitVfioConfs ==
    {NoFile, File(<<TextLine("# local settings"), TextLine(OldOptionsLine),
                    TextLine(OptionsLine("10de:1eb1")), TextLine(SoftdepLines[1])>>)}

InitHost(grubFiles, kinds) ==
    /\ \E g \in grubFiles, v \in InitVfioConfs :
         fs = [EmptyFs EXCEPT ![GrubPath] = g, ![VfioConfPath] = v]
    /\ app \in [bootloader : kinds]
    /\ host = DefaultHost
    /\ clock = 0
    /\ doc = NoDoc
    /\ changes = new_tracker(doc)
    /\ run = [orig |-> Snapshot(fs), pure |-> TRUE]
    /\ faults = 0
    /\ last = [op |-> "new"]

\* A host on which GRUB was detected, with each of the GRUB files.
InitBoot == InitHost(InitGrubFiles, {"Grub"})

\* A host with any of the detected bootloaders.
InitWorkflow == InitHost({NoFile, WellFormedGrub}, BootKinds)

Requests ==
    { <<>>, <<"iommu=pt">>, <<"iommu=on", "amd_iommu=on">>, <<"quiet">>,
      <<"iommu=on", "iommu=pt">> }

\* The persisted parameter string: the payload of the first assignment
\* line of the GRUB file, as written.
PersistedString(f) ==
    IF ~Exists(f, GrubPath) THEN "(no file)"
    ELSE LET i == FirstIndex(f[GrubPath].lines, LAMBDA l : l.k = "assign")
         IN IF i = 0 THEN "(no line)" ELSE Join(f[GrubPath].lines[i].ps)

\* A well-formed assignment line: both patterns are written to match it.
WellFormed(f) ==
    /\ Exists(f, GrubPath)
    /\ \E i \in 1..Len(f[GrubPath].lines) :
         ReadMatches(f[GrubPath].lines[i]) /\ WriteMatches(f[GrubPath].lines[i])

\* What `last` keeps of the operation before: a non-dry add_parameters
\* with its inputs and results, anything else only as "other".
Brief(l) ==
    IF l.op = "add_parameters" /\ ~l.dry_run
    THEN [op |-> l.op, params |-> l.params, dry_run |-> l.dry_run, io_ok |-> l.io_ok,
          ret |-> l.ret, persisted |-> l.persisted, wellFormed |-> l.wellFormed]
    ELSE [op |-> "other"]

GrubCall(op, P, dry_run, io_ok, r) ==
    /\ fs' = r.fs
    /\ last' = [op |-> op, params |-> P, dry_run |-> dry_run, io_ok |-> io_ok,
                ret |-> [ok |-> r.ok, changed |-> r.changed],
                wellFormed |-> WellFormed(fs), before |-> fs[GrubPath],
                persisted |-> PersistedString(r.fs),
                mutated |-> {p \in Paths : r.fs[p] # fs[p]},
                prev |-> Brief(last)]
    /\ UNCHANGED <<clock, changes, doc, run, faults, app, host>>

\* GrubConfig::add_parameters(P, dry_run)
GrubAdd ==
    \E P \in Requests, dry_run \in BOOLEAN, copyOk \in BOOLEAN, writeOk \in BOOLEAN :
      GrubCall("add_parameters", P, dry_run, copyOk /\ writeOk,
               grub_add_parameters(fs, P, dry_run, clock, copyOk, writeOk))

\* GrubConfig::remove_parameters(P, dry_run)
GrubRemove ==
    \E P \in Requests, dry_run \in BOOLEAN, copyOk \in BOOLEAN, writeOk \in BOOLEAN :
      GrubCall("remove_parameters", P, dry_run, copyOk /\ writeOk,
               grub_remove_parameters(fs, P, dry_run, clock, copyOk, writeOk))

\* The 'c' key with a GPU selected.
Configure ==
    \E id \in GpuIds, env \in WorkflowEnvs(app.bootloader) :
      /\ Len(changes) < MaxLog
      /\ \E w \in {WorkflowSteps(app.bootloader, fs, host, id, clock, env)} :
        \E o1 \in (IF w.success /\ w.buffer # <<>> THEN SaveOutcomesAt(faults) ELSE {"ok"}) :
           \E rec \in {IF w.success THEN RecordAll(changes, doc, w.buffer, <<o1, "ok">>)
                       ELSE [changes |-> changes, doc |-> doc, ok |-> TRUE, failed |-> 0]} :
              /\ fs' = w.fs
              /\ host' = w.host
              /\ changes' = rec.changes
              /\ doc' = rec.doc
              /\ faults' = faults + rec.failed
              /\ run' = [orig |-> run.orig, pure |-> FALSE]
              /\ last' = [op |-> "configure", tool |-> env.tool,
                          appended |-> SubSeq(rec.changes, Len(changes) + 1,
                                              Len(rec.changes)),
                          mutated |-> {p \in BasePaths : w.fs[p] # fs[p]},
                          buffer |-> w.buffer, steps_ok |-> w.success,
                          success |-> w.success /\ rec.ok]
              /\ UNCHANGED <<clock, app>>

(***************************************************************************)
(* The backends specification: the three BootloaderManager implementations *)
(* called through the trait, each on the host it was detected on.          *)
(***************************************************************************)
ManagerKinds == {"Grub", "SystemdBoot", "PopOsKernelstub"}

\* What the environment does during one call of `op`: I/O errors of the
\* backup copy and of the write, how the commands end, the regeneration
\* tool; what the call does not consult is held fixed.
BackendEnvs(kind, op) ==
    [copyOk : IF kind = "Grub" /\ op # "update_bootloader" THEN BOOLEAN ELSE {TRUE},
     writeOk : IF kind = "Grub" /\ op # "update_bootloader" THEN BOOLEAN ELSE {TRUE},
     exits : IF kind = "PopOsKernelstub" /\ op # "update_bootloader"
             THEN {<<0, 0>>, <<0, 1>>, <<1, 1>>} ELSE {<<0, 0>>},
     tool : IF kind = "Grub" /\ op = "update_bootloader" THEN GrubTools ELSE {"none"},
     spawned : IF kind = "Grub" /\ op = "update_bootloader" THEN BOOLEAN ELSE {TRUE},
     exit : IF kind = "Grub" /\ op = "update_bootloader" THEN {0, 1} ELSE {0}]

\* manager.add_parameters(P, dry_run) / remove_parameters(P, dry_run) /
\* update_bootloader(dry_run) through Box<dyn BootloaderManager>: the
\* result, the files and the host it leaves, the commands it executed.
backend_call(kind, op, f, h, P, dry_run, now, env) ==
    CASE kind = "Grub" /\ op = "add_parameters" ->
           Bind(grub_add_parameters(f, P, dry_run, now, env.copyOk, env.writeOk), LAMBDA r :
             [ok |-> r.ok, changed |-> r.changed, kind |-> IF r.ok THEN "" ELSE "io",
              fs |-> r.fs, host |-> h, cmds |-> <<>>])
      [] kind = "Grub" /\ op = "remove_parameters" ->
           Bind(grub_remove_parameters(f, P, dry_run, now, env.copyOk, env.writeOk), LAMBDA r :
             [ok |-> r.ok, changed |-> r.changed, kind |-> IF r.ok THEN "" ELSE "io",
              fs |-> r.fs, host |-> h, cmds |-> <<>>])
      [] kind = "Grub" /\ op = "update_bootloader" ->
           Bind(grub_update_bootloader(env.tool, dry_run, env.spawned, env.exit), LAMBDA r :
             [ok |-> r.ok, changed |-> FALSE, kind |-> r.kind, fs |-> f, host |-> h,
              cmds |-> IF r.ran THEN <<env.tool>> ELSE <<>>])
      [] kind = "PopOsKernelstub" /\ op = "add_parameters" ->
           Bind(kernelstub_add_parameters(P, dry_run, env.exits), LAMBDA r :
             [ok |-> r.ok, changed |-> r.changed, kind |-> "", fs |-> f,
              host |-> [h EXCEPT !.kopts = KernelstubOptions(h.kopts, r.cmds, env.exits, 1)],
              cmds |-> r.cmds])
      [] kind = "PopOsKernelstub" /\ op = "remove_parameters" ->
           Bind(kernelstub_remove_parameters(P, dry_run, env.exits), LAMBDA r :
             [ok |-> r.ok, changed |-> r.changed, kind |-> "", fs |-> f,
              host |-> [h EXCEPT !.kopts = KernelstubOptions(h.kopts, r.cmds, env.exits, 1)],
              cmds |-> r.cmds])
      [] kind = "PopOsKernelstub" /\ op = "update_bootloader" ->
           Bind(kernelstub_update_bootloader(dry_run), LAMBDA r :
             [ok |-> r.ok, changed |-> FALSE, kind |-> r.kind, fs |-> f, host |-> h,
              cmds |-> <<>>])
      [] kind = "SystemdBoot" /\ op = "add_parameters" ->
           Bind(systemd_boot_add_parameters(P, dry_run), LAMBDA r :
             [ok |-> r.ok, changed |-> r.changed, kind |-> "", fs |-> f, host |-> h,
              cmds |-> <<>>])
      [] kind = "SystemdBoot" /\ op = "remove_parameters" ->
           Bind(systemd_boot_remove_parameters(P, dry_run), LAMBDA r :
             [ok |-> r.ok, changed |-> r.changed, kind |-> "", fs |-> f, host |-> h,
              cmds |-> <<>>])
      [] kind = "SystemdBoot" /\ op = "update_bootloader" ->
           Bind(systemd_boot_update_bootloader(dry_run), LAMBDA r :
             [ok |-> r.ok, changed |-> FALSE, kind |-> r.kind, fs |-> f, host |-> h,
              cmds |-> <<>>])

\* A host with one of the bootloaders that have a manager.
InitBackends == InitHost({NoFile, WellFormedGrub}, ManagerKinds)

\* One call through the trait.  `dry` is what the same call returns with
\* dry_run = true from the same state and in the same environment.
BackendCall(op, P, dry_run, env) ==
    \E r \in {backend_call(app.bootloader, op, fs, host, P, dry_run, clock, env)},
       d \in {backend_call(app.bootloader, op, fs, host, P, TRUE, clock, env)} :
      /\ fs' = r.fs
      /\ host' = r.host
      /\ last' = [op |-> op, backend |-> app.bootloader, params |-> P,
                  dry_run |-> dry_run, tool |-> env.tool,
                  spawned |-> env.spawned, exit |-> env.exit,
                  ret |-> [ok |-> r.ok, changed |-> r.changed, kind |-> r.kind],
                  dry |-> [ok |-> d.ok, changed |-> d.changed],
                  cmds |-> r.cmds,
                  mutated |-> {p \in Paths : r.fs[p] # fs[p]},
                  pre |-> host]
      /\ UNCHANGED <<clock, changes, doc, run, faults, app>>

BackendAdd ==
    \E P \in Requests, dry_run \in BOOLEAN, env \in BackendEnvs(app.bootloader, "add_parameters") :
      BackendCall("add_parameters", P, dry_run, env)

BackendRemove ==
    \E P \in Requests, dry_run \in BOOLEAN, env \in BackendEnvs(app.bootloader, "remove_parameters") :
      BackendCall("remove_parameters", P, dry_run, env)

BackendUpdate ==
    \E dry_run \in BOOLEAN, env \in BackendEnvs(app.bootloader, "update_bootloader") :
      BackendCall("update_bootloader", <<>>, dry_run, env)

NextBackends ==
    \/ BackendAdd
    \/ BackendRemove
    \/ BackendUpdate

SpecBackends == InitBackends /\ [][NextBackends]_vars

\* GRUB activation next to the workflow, on a host where GRUB was detected.
InitActivate == InitHost({NoFile, WellFormedGrub}, {"Grub"})

NextActivate ==
    \/ BackendUpdate
    \/ Configure

SpecActivate == InitActivate /\ [][NextActivate]_vars

(***************************************************************************)
(* The device binder specification: bind_device and unbind_device called   *)
(* on a host in any state of its control files.                            *)
(***************************************************************************)
\* The hosts a call of the binder can find: a device bound to vfio-pci
\* needs the module loaded, and an override needs the kernel to have the
\* driver_override file.
InitHosts ==
    {h \in [driver : {NativeDriver, "", "vfio-pci"}, override : {"", "vfio-pci"},
            vfioLoaded : BOOLEAN, hasOverride : BOOLEAN, hasProbe : BOOLEAN,
            kopts : {{"quiet"}}] :
       /\ h.driver = "vfio-pci" => h.vfioLoaded
       /\ h.override # "" => h.hasOverride}

InitBind ==
    /\ fs = EmptyFs
    /\ app = [bootloader |-> "Grub"]
    /\ host \in InitHosts
    /\ clock = 0
    /\ doc = NoDoc
    /\ changes = new_tracker(doc)
    /\ run = [orig |-> Snapshot(fs), pure |-> TRUE]
    /\ faults = 0
    /\ last = [op |-> "new"]

BinderCall(op, device, dry_run, r) ==
    /\ host' = r.host
    /\ last' = [op |-> op, device |-> device, dry_run |-> dry_run,
                ret |-> [ok |-> r.ok, kind |-> r.kind], writes |-> r.writes, pre |-> host]
    /\ UNCHANGED <<fs, clock, changes, doc, run, faults, app>>

BindDevice ==
    \E device \in Devices, dry_run \in BOOLEAN, failAt \in 0..3 :
      BinderCall("bind_device", device, dry_run, bind_device(host, device, dry_run, failAt))

UnbindDevice ==
    \E device \in Devices, dry_run \in BOOLEAN, failAt \in 0..3 :
      BinderCall("unbind_device", device, dry_run, unbind_device(host, device, dry_run, failAt))

NextBind ==
    \/ BindDevice
    \/ UnbindDevice

SpecBind == InitBind /\ [][NextBind]_vars

(***************************************************************************)
(* configure_modprobe called again and again on the two files it keeps    *)
(* (specification SpecModprobe).                                           *)
(***************************************************************************)
\* What /etc/modprobe.d/vfio.conf may hold before the first call: nothing,
\* two live options lines, a complete file without its final newline, or
\* only a commented options line and a blank line.
ModprobeVfioConfs ==
    InitVfioConfs \cup
    { FileNoNl(<<TextLine(OptionsLine("10de:1eb1"))>> \o
               [i \in 1..Len(SoftdepLines) |-> TextLine(SoftdepLines[i])]),
      File(<<TextLine("# " \o OldOptionsLine), TextLine("")>>) }

ModprobeLoadConfs ==
    { NoFile, ModulesLoadContent, FileNoNl(ModulesLoadContent.lines),
      File(<<TextLine("vfio")>>) }

InitModprobe ==
    /\ \E v \in ModprobeVfioConfs, m \in ModprobeLoadConfs :
         fs = [EmptyFs EXCEPT ![VfioConfPath] = v, ![ModulesLoadPath] = m]
    /\ app = [bootloader |-> "Grub"]
    /\ host = DefaultHost
    /\ clock = 0
    /\ doc = NoDoc
    /\ changes = new_tracker(doc)
    /\ run = [orig |-> Snapshot(fs), pure |-> TRUE]
    /\ faults = 0
    /\ last = [op |-> "new"]

\* configure_modprobe(device_ids, dry_run): a dry run prints and returns
\* before either file is read.
ConfigureModprobe ==
    \E ids \in GpuIds, dry_run \in BOOLEAN, failAt \in ModprobeFailures :
      /\ dry_run => failAt = "none"
      /\ \E r \in {IF dry_run
                    THEN [ok |-> TRUE, fs |-> fs, wrote |-> {}, backups |-> {}]
                    ELSE configure_modprobe(fs, ids, clock, failAt)} :
           /\ fs' = r.fs
           /\ last' = [op |-> "configure_modprobe", ids |-> ids, dry_run |-> dry_run,
                       failAt |-> failAt, ok |-> r.ok, wrote |-> r.wrote,
                       backups |-> r.backups, before |-> fs,
                       prev |-> IF last.op = "configure_modprobe"
                                THEN [op |-> last.op, ids |-> last.ids,
                                      dry_run |-> last.dry_run, ok |-> last.ok]
                                ELSE [op |-> last.op]]
      /\ UNCHANGED <<clock, changes, doc, run, faults, app, host>>

NextModprobe ==
    \/ Tick
    \/ ConfigureModprobe

SpecModprobe == InitModprobe /\ [][NextModprobe]_vars

(***************************************************************************)
(* write_grub_cmdline and get_config_parameters as functions of the file:  *)
(* the write is applied to each of the GRUB files with each parameter      *)
(* string add_parameters and remove_parameters can pass it, and            *)
(* get_config_parameters is evaluated on the file the write leaves.        *)
(***************************************************************************)
\* Two assignment lines with other lines around them.
TwoAssignGrub ==
    File(<<TextLine("# /etc/default/grub"),
           AssignLine("'", <<"quiet">>, "'", ""),
           TextLine("GRUB_TIMEOUT=5"),
           AssignLine("\"", <<"splash">>, "\"", "")>>)

WriteGrubFiles == InitGrubFiles \cup {TwoAssignGrub}

\* final_params.join(" ") of a sorted set: what the callers pass.
WritePayloads == {SortParams(S) : S \in SUBSET {"iommu=pt", "quiet", "splash"}}

InitWrite == InitHost(WriteGrubFiles, {"Grub"})

\* self.write_grub_cmdline(&final_params_str)
WriteGrubCmdline ==
    \E pieces \in WritePayloads, ioOk \in BOOLEAN :
      \E r \in {write_grub_cmdline(fs, pieces, ioOk)} :
        /\ fs' = r.fs
        /\ last' = [op |-> "write_grub_cmdline", pieces |-> pieces,
                    ret |-> [ok |-> r.ok, kind |-> r.kind],
                    before |-> fs[GrubPath],
                    readback |-> get_config_parameters(r.fs)]
        /\ UNCHANGED <<clock, changes, doc, run, faults, app, host>>

NextWrite == WriteGrubCmdline

SpecWrite == InitWrite /\ [][NextWrite]_vars

NextBoot ==
    \/ Tick
    \/ GrubAdd
    \/ GrubRemove

SpecBoot == InitBoot /\ [][NextBoot]_vars

NextWorkflow ==
    \/ Tick
    \/ Configure

SpecWorkflow == InitWorkflow /\ [][NextWorkflow]_vars

(***************************************************************************)
(* Claims about the change log (specification Spec).                       *)
(***************************************************************************)

\* C2: rollback_all undoes the recorded changes in strict reverse order of
\* their recording (the j-th undo is that of the j-th entry from the end),
\* and generate_cleanup_script emits its blocks in that same reverse order.
C2_ReverseOrder ==
    /\ last.op = "rollback_all" =>
         /\ Len(last.attempts) = Len(last.pre)
         /\ \A j \in 1..Len(last.attempts) :
              /\ last.attempts[j].idx = Len(last.pre) + 1 - j
              /\ last.attempts[j].change = last.pre[Len(last.pre) + 1 - j]
    /\ last.op = "generate_cleanup_script" =>
         /\ Len(last.script.blocks) = Len(last.pre)
         /\ \A j \in 1..Len(last.pre) :
              last.script.blocks[j] = ScriptBlock(last.pre[Len(last.pre) + 1 - j])

C2_Witness ==
    /\ last.op = "rollback_all"
    /\ Len(last.pre) >= 2
    /\ last.pre[1] # last.pre[2]
    /\ last.attempts[1].change = last.pre[Len(last.pre)]

\* C4: an undo of FileModified{path, backup_path} that finds the backup and
\* returns Ok leaves path with exactly the bytes the backup held; when it is
\* the last undo of the rollback, that is the content of path afterwards.
C4_FileModifiedRestored ==
    last.op = "rollback_all" =>
      \A j \in 1..Len(last.attempts) :
        LET a == last.attempts[j]
        IN (a.change.variant = "FileModified" /\ a.had /\ a.ok) =>
             /\ a.now = a.bak
             /\ (j = Len(last.attempts) => fs[a.change.path] = a.bak)

C4_Witness ==
    /\ last.op = "rollback_all"
    /\ Len(last.attempts) = 1
    /\ last.attempts[1].change.variant = "FileModified"
    /\ last.attempts[1].had /\ last.attempts[1].ok
    /\ last.attempts[1].bak = ContentX
    /\ last.attempts[1].was = ContentY
    /\ fs[VfioConfPath] = ContentX

\* C8: after a successful record_change, a tracker constructed from the
\* persisted document holds the same sequence of changes as the one in
\* memory.
C8_RoundTrip ==
    (last.op = "record_change" /\ last.ret.ok) => new_tracker(doc) = changes

C8_Witness ==
    /\ last.op = "record_change" /\ last.ret.ok
    /\ Len(changes) >= 2
    /\ \E i \in 1..Len(changes) :
         changes[i].variant = "ModuleLoaded" /\ changes[i].backup_path.some
    /\ \E i \in 1..Len(changes) : changes[i].variant # "ModuleLoaded"
    /\ new_tracker(doc) = changes

\* C9: rollback_all attempts the undo of every recorded change exactly
\* once, also when some undo failed.
C9_EveryChangeAttemptedOnce ==
    last.op = "rollback_all" =>
      \A i \in 1..Len(last.pre) :
        Cardinality({j \in 1..Len(last.attempts) : last.attempts[j].idx = i}) = 1

C9_Witness ==
    /\ last.op = "rollback_all"
    /\ Len(last.pre) >= 2
    /\ ~last.attempts[1].ok
    /\ \E j \in 2..Len(last.attempts) : last.attempts[j].idx = 1

\* C10 (as claimed): whenever an undo failed, rollback_all returns an error
\* whose message holds every undo failure, and it returns Ok only if no
\* undo failed.
C10_AllErrorsReturned ==
    last.op = "rollback_all" =>
      /\ (last.errors # <<>> => (~last.ret.ok /\ last.ret.msgs = last.errors))
      /\ (last.ret.ok => last.errors = <<>>)

(***************************************************************************)
(* Claims about the backup helper (specification SpecBackup).              *)
(***************************************************************************)

\* C5 (as claimed), for a file that existed before its first modification:
\* when every entry of the log came from backup-write-record and every undo
\* returned Ok, rollback_all leaves the file as it was before the first
\* modification.
C5_FirstContentRestored ==
    (/\ last.op = "rollback_all"
     /\ last.pure
     /\ \A j \in 1..Len(last.attempts) : last.attempts[j].ok)
    => \A p \in TrackedPaths : last.orig[p].ex => fs[p] = last.orig[p]

(***************************************************************************)
(* Claims about the GRUB backend (specification SpecBoot).                 *)
(***************************************************************************)

\* The parameters the GRUB file holds: the pieces of its first assignment
\* line, blanks dropped.
PersistedSet(f) ==
    IF ~Exists(f, GrubPath) THEN {}
    ELSE LET i == FirstIndex(f[GrubPath].lines, LAMBDA l : l.k = "assign")
         IN IF i = 0 THEN {} ELSE SeqToSet(SplitWhitespace(f[GrubPath].lines[i].ps))

\* C1: two calls in a row of add_parameters(P, dry_run=false) with the same
\* non-empty P, on a file holding a well-formed assignment line and with no
\* I/O error, return changed=true and then changed=false, and the persisted
\* parameter string is the same after both calls.
C1_AddIdempotent ==
    ( /\ last.op = "add_parameters" /\ ~last.dry_run /\ last.io_ok
      /\ last.params # <<>>
      /\ last.prev.op = "add_parameters"
      /\ last.prev.io_ok
      /\ last.prev.params = last.params
      /\ last.prev.wellFormed )
    => /\ last.prev.ret = [ok |-> TRUE, changed |-> TRUE]
       /\ last.ret = [ok |-> TRUE, changed |-> FALSE]
       /\ last.persisted = last.prev.persisted

\* C6: after add_parameters(requested, dry_run=false) without I/O error on a
\* file holding a well-formed assignment line, the call has succeeded and,
\* for every KEY occurring in requested, the file holds exactly one
\* parameter with that KEY: the last requested entry for the KEY.
C6_OnePerRequestedKey ==
    ( /\ last.op = "add_parameters" /\ ~last.dry_run /\ last.io_ok
      /\ last.wellFormed )
    => /\ last.ret.ok
       /\ \A i \in 1..Len(last.params) :
            LET k == KeyOf(last.params[i])
                n == CHOOSE j \in 1..Len(last.params) :
                       /\ KeyOf(last.params[j]) = k
                       /\ \A m \in (j + 1)..Len(last.params) : KeyOf(last.params[m]) # k
            IN {q \in PersistedSet(fs) : KeyOf(q) = k} = {last.params[n]}

\* C7: from a file holding KEY="quiet splash", add(["iommu=on",
\* "amd_iommu=on"]) with dry_run=false and no I/O error returns changed=true
\* and persists "amd_iommu=on iommu=on quiet splash"; remove(["quiet"]) on
\* that result persists "amd_iommu=on iommu=on splash".
C7_SortedJoinedScenario ==
    /\ ( /\ last.op = "add_parameters" /\ ~last.dry_run /\ last.io_ok
         /\ last.before = WellFormedGrub
         /\ last.params = <<"iommu=on", "amd_iommu=on">> )
       => /\ last.ret = [ok |-> TRUE, changed |-> TRUE]
          /\ last.persisted = "amd_iommu=on iommu=on quiet splash"
    /\ ( /\ last.op = "remove_parameters" /\ ~last.dry_run /\ last.io_ok
         /\ last.before.ex
         /\ last.before.lines = [WellFormedGrub.lines EXCEPT
               ![2].ps = <<"amd_iommu=on", "iommu=on", "quiet", "splash">>]
         /\ last.params = <<"quiet">> )
       => /\ last.ret = [ok |-> TRUE, changed |-> TRUE]
          /\ last.persisted = "amd_iommu=on iommu=on splash"

(***************************************************************************)
(* Claims about the configuration workflow (specification SpecWorkflow).   *)
(***************************************************************************)

\* Change c is the log's record of a rewrite of the file at path p.
RecordsRewriteOf(c, p) ==
    \/ c.variant = "FileModified" /\ c.path = p
    \/ c.variant = "ModuleLoaded" /\ c.config_path = p
    \/ /\ c.variant \in {"KernelParamAdded", "KernelParamRemoved"}
       /\ c.bootloader = "Grub"
       /\ p = GrubPath

\* C3: when the workflow ends, every file it rewrote (vfio.conf, the
\* modules-load file, the bootloader file) has a Change in the change log,
\* whether or not a later step of the workflow failed.
C3_EveryMutationLogged ==
    last.op = "configure" =>
      \A p \in last.mutated :
        \E i \in 1..Len(changes) : RecordsRewriteOf(changes[i], p)

(***************************************************************************)
(* Claims about persisting the change log (specification Spec).            *)
(***************************************************************************)

\* C11: rollback_all persists the shortened log after the undo attempts
\* whether or not an undo failed: when it returns after a successful
\* persist (Ok, or the error joining the undo failures), the persisted
\* document is the document of the in-memory log and loads back as it.
C11_RollbackPersistsLog ==
    (last.op = "rollback_all" /\ last.ret.kind # "save") =>
      /\ doc = DocOf(changes)
      /\ load_state(doc).ok
      /\ load_state(doc).changes = changes

C11_Witness ==
    /\ last.op = "rollback_all"
    /\ last.ret.kind = "Other"
    /\ Len(last.pre) >= 2
    /\ doc = DocOf(changes)

\* C12: record_change appends the Change in memory and then persists the
\* whole log: after the call the log is the log before with the Change
\* appended, also when the call returns the persist error; when it returns
\* Ok the persisted document is that of the whole log.
C12_AppendNotReverted ==
    last.op = "record_change" =>
      /\ changes = Append(last.pre, last.change)
      /\ last.ret.ok => doc = DocOf(changes)

C12_Witness ==
    /\ last.op = "record_change"
    /\ ~last.ret.ok
    /\ last.pre # <<>>
    /\ changes = Append(last.pre, last.change)
    /\ doc # DocOf(changes)

(***************************************************************************)
(* Claims about the device binder (specification SpecBind).                *)
(***************************************************************************)

\* C13: bind_device and unbind_device with dry_run=true write to no sysfs
\* control file, leave the host as it was and return success, also when
\* the control file a real run needs (vfio-pci's bind file, the re-probe
\* file) does not exist.
C13_DryRunBinderWritesNothing ==
    (last.op \in {"bind_device", "unbind_device"} /\ last.dry_run) =>
      /\ last.ret.ok
      /\ last.writes = <<>>
      /\ host = last.pre

C13_Witness ==
    /\ last.op = "bind_device"
    /\ last.dry_run
    /\ ~SysfsExists(last.pre, VfioBindFile)
    /\ last.ret.ok

\* The kernel parameter a KernelParamAdded change speaks of is in force in
\* the configuration of the bootloader it names.
ParamApplied(c, f, h) ==
    CASE c.bootloader = "PopOsKernelstub" -> c.parameter \in h.kopts
      [] c.bootloader = "Grub" -> c.parameter \in PersistedSet(f)
      [] OTHER -> FALSE

\* C20: the workflow records a Change only after the mutation it describes
\* has been written: at no reachable state does the change log hold a
\* KernelParamAdded whose parameter has not been applied.
C20_NoChangeWithoutMutation ==
    \A i \in 1..Len(changes) :
      changes[i].variant = "KernelParamAdded" => ParamApplied(changes[i], fs, host)

(***************************************************************************)
(* Claims about activation (specifications SpecActivate, SpecBackends).    *)
(***************************************************************************)

\* C14: GRUB's update_bootloader returns a NotFound error and runs no
\* command when none of the known regeneration tools is present, and a run
\* of the configuration workflow on such a host appends no Change to the
\* change log.
C14_NoToolNotFoundNoChange ==
    /\ (last.op = "update_bootloader" /\ last.backend = "Grub" /\ last.tool = "none") =>
         /\ ~last.ret.ok
         /\ last.ret.kind = "NotFound"
         /\ last.cmds = <<>>
    /\ (last.op = "configure" /\ last.tool = "none") =>
         /\ last.appended = <<>>
         /\ ~last.success

C14_Witness ==
    /\ last.op = "update_bootloader"
    /\ last.backend = "Grub"
    /\ last.tool = "none"
    /\ ~last.dry_run
    /\ last.ret.kind = "NotFound"

\* C15: GRUB's update_bootloader with dry_run=false returns success only
\* if a regeneration command was executed and exited with status 0; in
\* every other case it returns NotFound (no known tool) or the
\* command-failure error that carries the child's exit status.
C15_SuccessOnlyAfterCommand ==
    (last.op = "update_bootloader" /\ last.backend = "Grub" /\ ~last.dry_run) =>
      IF last.ret.ok
      THEN last.cmds # <<>> /\ last.spawned /\ last.exit = 0
      ELSE \/ last.ret.kind = "NotFound" /\ last.tool = "none"
           \/ last.ret.kind = "Other" /\ last.cmds # <<>> /\ last.exit # 0

(***************************************************************************)
(* Claims about the three backends (specification SpecBackends).           *)
(***************************************************************************)

\* C16: for every backend, add_parameters, remove_parameters and
\* update_bootloader called with dry_run=true write no file, create no
\* backup and execute no external command.
C16_DryRunTouchesNothing ==
    ( /\ last.op \in {"add_parameters", "remove_parameters", "update_bootloader"}
      /\ last.dry_run )
    => /\ last.mutated = {}
       /\ last.cmds = <<>>
       /\ host = last.pre

C16_Witness ==
    /\ last.op = "add_parameters"
    /\ last.backend = "PopOsKernelstub"
    /\ last.dry_run
    /\ last.params # <<>>
    /\ last.ret.changed
    /\ last.cmds = <<>>

\* C17: for every backend and every request list, add_parameters and
\* remove_parameters with dry_run=true return the same `changed` as the
\* same call with dry_run=false returns from the same state, whenever that
\* real call succeeds.
C17_DryRunPredictsChanged ==
    ( /\ last.op \in {"add_parameters", "remove_parameters"}
      /\ ~last.dry_run
      /\ last.ret.ok )
    => /\ last.dry.ok
       /\ last.dry.changed = last.ret.changed

\* C18: the systemd-boot backend, whose add and remove are not
\* implemented, returns an explicit "not supported" error from
\* add_parameters and remove_parameters, dry-run or not, never a plain
\* success value.
C18_SystemdBootNotSupported ==
    ( /\ last.op \in {"add_parameters", "remove_parameters"}
      /\ last.backend = "SystemdBoot" )
    => /\ ~last.ret.ok
       /\ last.ret.kind = "Unsupported"

(***************************************************************************)
(* Claims about the order of the binder's writes (specification SpecBind). *)
(***************************************************************************)
IsPrefix(s, t) == Len(s) <= Len(t) /\ s = SubSeq(t, 1, Len(s))

AllButLast(s) == SubSeq(s, 1, Len(s) - 1)

\* The writes of a complete bind, for the device as it is passed and the
\* host as the call finds it.
BindWrites(device, h) ==
    (IF device.driver.some /\ SysfsExists(h, DriverUnbindFile)
     THEN <<[file |-> DriverUnbindFile, data |-> device.bdf]>> ELSE <<>>)
    \o (IF SysfsExists(h, DriverOverrideFile)
        THEN <<[file |-> DriverOverrideFile, data |-> "vfio-pci"]>> ELSE <<>>)
    \o <<[file |-> VfioBindFile, data |-> device.bdf]>>

\* The writes of a complete unbind.
UnbindWrites(device, h) ==
    (IF SysfsExists(h, VfioUnbindFile)
     THEN <<[file |-> VfioUnbindFile, data |-> device.bdf]>> ELSE <<>>)
    \o (IF SysfsExists(h, DriverOverrideFile)
        THEN <<[file |-> DriverOverrideFile, data |-> ""]>> ELSE <<>>)
    \o <<[file |-> ProbeFile, data |-> device.bdf]>>

\* C21: bind_device with dry_run=false writes, in this order and each at
\* most once, the BDF to the unbind file of the current driver (only when a
\* driver is attached), "vfio-pci" to driver_override (skipped when that
\* file is absent) and the BDF to the vfio-pci bind file, stopping at the
\* first write that fails; when the bind file is absent and the writes
\* before it were made it returns NotFound; it returns Ok only after the
\* bind write, which leaves the device bound to vfio-pci.
C21_BindOrder ==
    (last.op = "bind_device" /\ ~last.dry_run) =>
      LET E == BindWrites(last.device, last.pre)
      IN /\ IsPrefix(last.writes, E)
         /\ (~SysfsExists(last.pre, VfioBindFile) /\ last.writes = AllButLast(E))
              => (~last.ret.ok /\ last.ret.kind = "NotFound")
         /\ ~SysfsExists(last.pre, VfioBindFile) => ~last.ret.ok
         /\ last.ret.ok => (last.writes = E /\ host.driver = "vfio-pci")

C21_Witness ==
    /\ last.op = "bind_device" /\ ~last.dry_run /\ last.ret.ok
    /\ last.pre.driver = NativeDriver
    /\ last.writes = << [file |-> DriverUnbindFile, data |-> Bdf],
                        [file |-> DriverOverrideFile, data |-> "vfio-pci"],
                        [file |-> VfioBindFile, data |-> Bdf] >>

\* C22: unbind_device with dry_run=false writes, in this order, the BDF to
\* the vfio-pci unbind file (skipped without error when absent), an empty
\* value to driver_override and the BDF to drivers_probe, stopping at the
\* first write that fails; it fails when drivers_probe is absent (NotFound
\* when the writes before it were made); it returns Ok only after the
\* re-probe write, and then driver_override was cleared before the
\* re-probe.
C22_UnbindOrder ==
    (last.op = "unbind_device" /\ ~last.dry_run) =>
      LET E == UnbindWrites(last.device, last.pre)
      IN /\ IsPrefix(last.writes, E)
         /\ (~SysfsExists(last.pre, ProbeFile) /\ last.writes = AllButLast(E))
              => (~last.ret.ok /\ last.ret.kind = "NotFound")
         /\ ~SysfsExists(last.pre, ProbeFile) => ~last.ret.ok
         /\ last.ret.ok =>
              /\ last.writes = E
              /\ host.override = ""
              /\ \A i \in 1..Len(last.writes) :
                   last.writes[i].file = DriverOverrideFile =>
                     \E j \in (i + 1)..Len(last.writes) : last.writes[j].file = ProbeFile

C22_Witness ==
    /\ last.op = "unbind_device" /\ ~last.dry_run /\ last.ret.ok
    /\ last.pre.driver = "vfio-pci" /\ last.pre.override = "vfio-pci"
    /\ last.writes = << [file |-> VfioUnbindFile, data |-> Bdf],
                        [file |-> DriverOverrideFile, data |-> ""],
                        [file |-> ProbeFile, data |-> Bdf] >>
    /\ host.driver = NativeDriver /\ host.override = ""

(***************************************************************************)
(* Claims about single undos and about the cleanup script (specification   *)
(* Spec).                                                                  *)
(***************************************************************************)

\* C23 (as claimed): when rollback_all undoes a DriverBound or DriverUnbound
\* change whose original driver is recorded, the undo performs sysfs writes
\* of the device binder; when the original driver is unknown it performs no
\* write and reports a manual step.
C23_DriverUndoReinvokesBinder ==
    last.op = "rollback_all" =>
      \A j \in 1..Len(last.attempts) :
        LET a == last.attempts[j]
        IN a.change.variant \in {"DriverBound", "DriverUnbound"} =>
             IF a.change.original_driver.some
             THEN a.writes # <<>>
             ELSE a.writes = <<>> /\ a.manual

\* C24 (as claimed): executing the generated cleanup script twice leaves the
\* files and the host as executing it once does, for every change log.
C24_ScriptRerunIdempotent ==
    last.op = "generate_cleanup_script" => last.twice = last.once

\* What rollback_all leaves of files f and host h for log chs when no file
\* system call fails.
RollbackOutcome(f, h, chs) ==
    [fs |-> RollbackLoop(f, chs, PopOrder(Len(chs)), {}, <<>>).fs, host |-> h]

\* C25 (as claimed): from the same files and host and for the same change
\* log, executing the generated cleanup script leaves the files and the
\* driver binding that rollback_all leaves.
C25_ScriptEqualsRollback ==
    last.op = "generate_cleanup_script" =>
      last.once = RollbackOutcome(fs, host, last.pre)

\* C26: a step of generate_cleanup_script changes neither the change log in
\* memory, nor the persisted document, nor any configuration or backup
\* file, nor the host (sysfs, the bootloader tool's configuration).
C26_ScriptOnlyRenders ==
    [][last'.op = "generate_cleanup_script" => UNCHANGED <<fs, changes, doc, host>>]_vars

C26_Witness ==
    /\ last.op = "generate_cleanup_script"
    /\ last.pre = changes /\ changes # <<>>
    /\ last.once.fs # fs
    /\ doc = DocOf(changes)

\* C27: an undo of ModuleLoaded{config_path, backup_path} whose file system
\* call does not fail leaves config_path with the content of the backup
\* when a backup is recorded and exists, and leaves no file at config_path
\* in every other case (backup recorded but absent, no backup recorded).
C27_ModuleLoadedUndo ==
    last.op = "rollback_all" =>
      \A j \in 1..Len(last.attempts) :
        LET a == last.attempts[j]
        IN (a.change.variant = "ModuleLoaded" /\ ~a.fault) =>
             /\ a.ok
             /\ IF a.had THEN a.now = a.bak /\ a.now # NoFile ELSE a.now = NoFile

C27_Witness ==
    /\ last.op = "rollback_all"
    /\ \E j \in 1..Len(last.attempts) :
         LET a == last.attempts[j]
         IN /\ a.change.variant = "ModuleLoaded" /\ ~a.fault
            /\ a.change.backup_path.some /\ ~a.had
            /\ a.was # NoFile /\ a.now = NoFile

\* C28: an undo of KernelParamAdded or KernelParamRemoved returns Ok also
\* when file system calls would fail, reports that a manual action is
\* needed, and changes no file (the bootloader configuration included) and
\* writes nothing to sysfs.
C28_KernelParamUndoManual ==
    last.op = "rollback_all" =>
      \A j \in 1..Len(last.attempts) :
        LET a == last.attempts[j]
        IN a.change.variant \in {"KernelParamAdded", "KernelParamRemoved"} =>
             a.ok /\ a.manual /\ a.touched = {} /\ a.writes = <<>>

C28_Witness ==
    /\ last.op = "rollback_all"
    /\ \E j \in 1..Len(last.attempts) :
         /\ last.attempts[j].change.variant = "KernelParamAdded"
         /\ last.attempts[j].fault /\ last.attempts[j].ok
    /\ \E j \in 1..Len(last.attempts) :
         last.attempts[j].change.variant = "KernelParamRemoved"
    /\ last.ret.ok

(***************************************************************************)
(* Claims about the kernelstub backend (specification SpecBackends) and    *)
(* about GRUB's remove_parameters (specification SpecBoot).                *)
(***************************************************************************)

\* C29 (as claimed): add_parameters and remove_parameters of the kernelstub
\* backend return Ok, issue one command per requested parameter in request
\* order when not under dry-run, also after an invocation failed, and
\* return changed = true iff at least one invocation ran or, under
\* dry-run, would run.
C29_KernelstubPerParameter ==
    (last.op \in {"add_parameters", "remove_parameters"}
       /\ last.backend = "PopOsKernelstub") =>
      /\ last.ret.ok
      /\ ~last.dry_run =>
           last.cmds = [i \in 1..Len(last.params) |->
                          <<IF last.op = "add_parameters" THEN "-a" ELSE "-d",
                            last.params[i]>>]
      /\ last.ret.changed <=>
           (IF last.dry_run THEN last.params # <<>> ELSE last.cmds # <<>>)

\* C30 (as claimed): remove_parameters(requested, dry_run=false) without
\* I/O error on a file holding a well-formed assignment line succeeds,
\* leaves exactly the parameters that match no requested entry by exact
\* string or by KEY, returns changed=true iff the set became strictly
\* smaller, and changes no file when it returns changed=false.
C30_RemoveDropsMatching ==
    ( /\ last.op = "remove_parameters" /\ ~last.dry_run /\ last.io_ok
      /\ last.wellFormed )
    => LET was == PersistedSet([p \in Paths |-> IF p = GrubPath THEN last.before ELSE NoFile])
           keep == {q \in was : \A i \in 1..Len(last.params) :
                                  q # last.params[i] /\ KeyOf(q) # KeyOf(last.params[i])}
       IN /\ last.ret.ok
          /\ PersistedSet(fs) = keep
          /\ last.ret.changed <=> Cardinality(keep) < Cardinality(was)
          /\ ~last.ret.changed => last.mutated = {}

\* C31 (as claimed): GRUB add_parameters([]) and remove_parameters([])
\* return changed=false, take no backup and leave every file, the
\* configuration file included, as it was.
C31_EmptyRequestNoOp ==
    (last.op \in {"add_parameters", "remove_parameters"} /\ last.params = <<>>) =>
      /\ last.ret = [ok |-> TRUE, changed |-> FALSE]
      /\ last.mutated = {}

(***************************************************************************)
(* Claims about the GRUB write and read-back (specification SpecWrite).    *)
(***************************************************************************)

\* C32: a GRUB write that succeeds replaces only the payload between the
\* quotes of the first assignment line the write pattern matches and leaves
\* every other line, and the rest of that line, as it was; when no line
\* matches, the content that was there is kept and one assignment line in
\* double quotes, holding the new payload, is appended.
C32_WriteTouchesOnlyPayload ==
    (last.op = "write_grub_cmdline" /\ last.ret.ok) =>
      LET b == last.before.lines
          a == fs[GrubPath].lines
          i == FirstIndex(b, WriteMatches)
          appended == AssignLine("\"", last.pieces, "\"", "")
      IN IF i # 0
         THEN /\ Len(a) = Len(b)
              /\ fs[GrubPath].nl = last.before.nl
              /\ \A j \in 1..Len(b) : j # i => a[j] = b[j]
              /\ a[i] = [b[i] EXCEPT !.ps = last.pieces]
         ELSE /\ Len(a) >= Len(b) + 1
              /\ SubSeq(a, 1, Len(b)) = b
              /\ a[Len(a)] = appended
              /\ SubSeq(a, Len(b) + 1, Len(a) - 1)
                   = (IF last.before.nl THEN <<TextLine("")>> ELSE <<>>)

C32_Witness ==
    /\ last.op = "write_grub_cmdline" /\ last.ret.ok
    /\ last.before = TwoAssignGrub
    /\ last.pieces = <<"iommu=pt", "quiet">>
    /\ fs[GrubPath].lines =
         << TextLine("# /etc/default/grub"),
            AssignLine("'", <<"iommu=pt", "quiet">>, "'", ""),
            TextLine("GRUB_TIMEOUT=5"),
            AssignLine("\"", <<"splash">>, "\"", "") >>

C33_NewNeverFails ==
    (last.op = "new" /\ last # [op |-> "new"]) =>
      /\ last.ret.ok
      /\ doc = last.from
      /\ ~last.from.ex => (changes = <<>> /\ ~last.ret.warned)
      /\ ( /\ last.from.ex
           /\ \/ ~last.from.valid
              \/ \E i \in 1..Len(last.from.body) : last.from.body[i].tag \notin KnownVariants )
         => (changes = <<>> /\ last.ret.warned)

C33_Witness ==
    /\ last.op = "new" /\ last # [op |-> "new"]
    /\ last.from = UnknownVariantDoc
    /\ last.ret.ok /\ last.ret.warned
    /\ changes = <<>>

\* C34: a clear_state that returns Ok leaves the log in memory empty and
\* the persisted document holding the empty log, and a rollback_all that
\* follows it undoes nothing: it attempts no undo and changes no file.
C34_ClearStateEmpties ==
    [][ /\ (last'.op = "clear_state" /\ last'.ret.ok) =>
             (changes' = <<>> /\ doc' = DocOf(<<>>) /\ new_tracker(doc') = <<>>)
        /\ (last.op = "clear_state" /\ last.ret.ok /\ last'.op = "rollback_all") =>
             (last'.attempts = <<>> /\ fs' = fs)
      ]_vars

C34_Witness ==
    /\ last.op = "clear_state" /\ last.ret.ok
    /\ Len(last.pre) = 2
    /\ \E i \in 1..2 : last.pre[i].variant = "FileModified" /\ Exists(fs, last.pre[i].backup_path)
    /\ changes = <<>>
    /\ doc = DocOf(<<>>)

(***************************************************************************)
(* Claim about what the backup helper returns (specification SpecBackup).  *)
(***************************************************************************)

\* C35 (as claimed): the path create_timestamped_backup returns with Ok is
\* another path than the original's and holds a file, made by the call,
\* whose content is the original's content at the time of the call, and
\* the call leaves the original as it was.
C35_ReturnedPathIsBackupCopy ==
    (last.op = "modify" /\ last.backup.ok) =>
      /\ last.backup.path # last.path
      /\ last.backup.copy.ex
      /\ last.backup.copy = last.before
      /\ last.backup.original = last.before

(***************************************************************************)
(* Claims about the change log as a sequence (specification Spec).         *)
(***************************************************************************)

\* C36: a step of record_change leaves the log as it was with exactly the
\* recorded change added at the end, whether or not the save succeeded,
\* and a step of any operation on the log other than rollback_all and
\* clear_state leaves every entry that was in it, in the same order.  (A
\* newly constructed tracker is another log: it holds what the document
\* holds.)
C36_AppendOnly ==
    [][ /\ last'.op = "record_change" =>
             (changes' = Append(changes, last'.change) /\ Len(changes') = Len(changes) + 1)
        /\ last'.op \notin {"rollback_all", "clear_state", "new"} =>
             IsPrefix(changes, changes')
      ]_vars

C36_Witness ==
    /\ last.op = "record_change" /\ ~last.ret.ok
    /\ Len(last.pre) = 1
    /\ last.pre[1] # last.change
    /\ changes = <<last.pre[1], last.change>>

\* C37: after every step of rollback_all the log in memory is empty, also
\* when undos failed, and a rollback_all that follows attempts no undo: a
\* change whose undo failed is not retried.
C37_RollbackEmptiesLog ==
    [][ /\ last'.op = "rollback_all" => changes' = <<>>
        /\ (last.op = "rollback_all" /\ last'.op = "rollback_all") =>
             last'.attempts = <<>>
      ]_vars

C37_Witness ==
    /\ last.op = "rollback_all"
    /\ Len(last.pre) = 2
    /\ last.errors # <<>>
    /\ ~last.ret.ok
    /\ changes = <<>>

(***************************************************************************)
(* Claim about a bind that fails at its last step (specification SpecBind).*)
(***************************************************************************)

\* C38: when bind_device (dry_run=false) returns NotFound because the
\* vfio-pci bind file is absent, for a device with a driver attached and a
\* driver_override file, the unbind write and the override write have been
\* made and stay: the device has no driver and its override is "vfio-pci".
C38_FailedBindLeavesOverrideSet ==
    ( /\ last.op = "bind_device" /\ ~last.dry_run
      /\ ~last.ret.ok /\ last.ret.kind = "NotFound"
      /\ last.device.driver.some
      /\ SysfsExists(last.pre, DriverUnbindFile)
      /\ SysfsExists(last.pre, DriverOverrideFile) )
    => /\ last.writes = << [file |-> DriverUnbindFile, data |-> last.device.bdf],
                           [file |-> DriverOverrideFile, data |-> "vfio-pci"] >>
       /\ host.driver = ""
       /\ host.override = "vfio-pci"
       /\ host # last.pre

C38_Witness ==
    /\ last.op = "bind_device" /\ ~last.dry_run
    /\ ~last.ret.ok /\ last.ret.kind = "NotFound"
    /\ last.device.driver = Some(NativeDriver)
    /\ last.pre.driver = NativeDriver /\ last.pre.override = ""
    /\ host.driver = "" /\ host.override = "vfio-pci"

(***************************************************************************)
(* Claim about repeated configure_modprobe calls (specification            *)
(* SpecModprobe).                                                          *)
(***************************************************************************)
UncommentedOptions(file) ==
    {i \in 1..Len(file.lines) :
       ~IsBlankOrComment(file.lines[i].s) /\ IsOptions(file.lines[i].s)}

====
